---- MODULE Spec2Model ----
(***************************************************************************)
(* A model of the clothing-rental backend: the Product / Category / Order  *)
(* documents held by the store and the route handlers that read and write  *)
(* them.  Every handler is one action; the store is the only shared state. *)
(*                                                                         *)
(* Money is held in hundredths of the currency unit (the code's Number 40  *)
(* is 4000 here), which makes the 8% tax an exact integer; the code's      *)
(* IEEE-754 rounding is outside the model.  Times are integer ticks,       *)
(* DayLen ticks to a day.  A document reference that is null is 0.         *)
(***************************************************************************)
EXTENDS Integers, Sequences, FiniteSets, TLC

VARIABLES users, categories, products, orders, last, inflight

vars == <<users, categories, products, orders, last, inflight>>

(***************************************************************************)
(* Bounds of the model.                                                    *)
(***************************************************************************)
MaxProducts == 2
MaxOrders == 1
MaxItems == 2
MaxQty == 2
MaxRandom == 1
MaxCategorised == 1
MaxSlugged == 3
MaxRaced == 2
MaxListed == 2
MaxInflight == 2
MaxViews == 1
MaxMigrated == 2
DayLen == 2

(***************************************************************************)
(* Identities and enumerations.                                            *)
(***************************************************************************)
NoRef == 0

UserIds == {1, 2, 3}

AdminIds == {3}

OrderStatuses ==
    {"Pending", "Confirmed", "Processing", "Shipped", "Delivered", "Returned", "Cancelled"}

PaymentStatuses == {"Pending", "Paid", "Failed", "Refunded"}

Units(n) == n * 100

(***************************************************************************)
(* Text.  A string is a sequence of one-character strings.                 *)
(***************************************************************************)
UpperCase ==
    <<"A", "B", "C", "D", "E", "F", "G", "H", "I", "J", "K", "L", "M",
      "N", "O", "P", "Q", "R", "S", "T", "U", "V", "W", "X", "Y", "Z">>

LowerCase ==
    <<"a", "b", "c", "d", "e", "f", "g", "h", "i", "j", "k", "l", "m",
      "n", "o", "p", "q", "r", "s", "t", "u", "v", "w", "x", "y", "z">>

DigitChars == <<"0", "1", "2", "3", "4", "5", "6", "7", "8", "9">>

Range(s) == {s[i] : i \in DOMAIN s}

\* String.prototype.toLowerCase, one character
ToLowerChar(c) ==
    IF c \in Range(UpperCase)
    THEN LowerCase[CHOOSE i \in DOMAIN UpperCase : UpperCase[i] = c]
    ELSE c

ToLowerCase(s) == [i \in DOMAIN s |-> ToLowerChar(s[i])]

\* the class [a-z0-9] of the slug pattern
IsSlugChar(c) == c \in Range(LowerCase) \/ c \in Range(DigitChars)

RECURSIVE SkipNonSlug(_)
SkipNonSlug(s) ==
    IF s = <<>> \/ IsSlugChar(Head(s)) THEN s ELSE SkipNonSlug(Tail(s))

\* .replace(/[^a-z0-9]+/g, '-')
RECURSIVE ReplaceNonSlugRuns(_)
ReplaceNonSlugRuns(s) ==
    IF s = <<>> THEN <<>>
    ELSE IF IsSlugChar(Head(s)) THEN <<Head(s)>> \o ReplaceNonSlugRuns(Tail(s))
    ELSE <<"-">> \o ReplaceNonSlugRuns(SkipNonSlug(Tail(s)))

\* .replace(/(^-|-$)/g, '')
TrimHyphens(s) ==
    LET a == IF s # <<>> /\ Head(s) = "-" THEN Tail(s) ELSE s
    IN  IF a # <<>> /\ a[Len(a)] = "-" THEN SubSeq(a, 1, Len(a) - 1) ELSE a

BaseSlug(name) == TrimHyphens(ReplaceNonSlugRuns(ToLowerCase(name)))

\* Number.prototype.toString of the probe counter inside the template literal
RECURSIVE NumberToString(_)
NumberToString(n) ==
    IF n < 10 THEN <<DigitChars[n + 1]>>
    ELSE NumberToString(n \div 10) \o <<DigitChars[(n % 10) + 1]>>

\* a slip in the suffix: the first suffix tried is 2
SlugCandidateFromTwo(baseSlug, counter) ==
    baseSlug \o <<"-">> \o NumberToString(counter + 1)

\* `${baseSlug}-${counter}`
SlugCandidate(baseSlug, counter) == baseSlug \o <<"-">> \o NumberToString(counter)

(***************************************************************************)
(* The store.                                                              *)
(*   users      : id -> account; accounts are deleted, never re-created    *)
(*   categories : sequence indexed by category id                          *)
(*   products   : sequence indexed by product id; a deleted document stays *)
(*                as a tombstone so that its id is never handed out again  *)
(*   orders     : sequence indexed by order id; orders are never deleted   *)
(*   last       : the request just served and the response sent for it     *)
(*   inflight   : product creations between their first read and their     *)
(*                insert, each with the slug its probe loop has reached     *)
(***************************************************************************)
ProductTombstone ==
    [exists |-> FALSE, name |-> <<>>, categories |-> <<>>, category |-> NoRef,
     price |-> 0, isAvailable |-> FALSE, slug |-> <<>>, views |-> 0]

CategoryExists(c) == c \in DOMAIN categories /\ categories[c].exists

ProductExists(p) == p \in DOMAIN products /\ products[p].exists

UserExists(u) == u \in DOMAIN users /\ users[u].exists

IsAdmin(u) == UserExists(u) /\ users[u].role = "admin"

Response(op, who, target, code, msg, ref) ==
    [op |-> op, who |-> who, target |-> target, code |-> code, msg |-> msg, ref |-> ref]

(***************************************************************************)
(* Product schema hooks.                                                   *)
(***************************************************************************)
\* pre('save') #1: category follows categories[0]
SyncCategory(doc) ==
    IF Len(doc.categories) > 0
    THEN [doc EXCEPT !.category = doc.categories[1]]
    ELSE doc

\* Product.findOne({ slug: slug, _id: { $ne: self } })
SlugTaken(slug, self) ==
    \E q \in DOMAIN products :
        q # self /\ products[q].exists /\ products[q].slug = slug

\* the probe loop: slug, then baseSlug-1, baseSlug-2, ...
RECURSIVE ProbeSlug(_, _, _, _)
ProbeSlug(baseSlug, slug, counter, self) ==
    IF ~SlugTaken(slug, self) THEN slug
    ELSE ProbeSlug(baseSlug, SlugCandidate(baseSlug, counter), counter + 1, self)

\* pre('save') #2: a new slug only when name was modified on this document
GenerateSlug(doc, self, nameModified) ==
    IF ~nameModified THEN doc
    ELSE [doc EXCEPT !.slug = ProbeSlug(BaseSlug(doc.name), BaseSlug(doc.name), 1, self)]

\* document.save(): both hooks, in the order they are registered
SaveProduct(doc, self, nameModified) ==
    GenerateSlug(SyncCategory(doc), self, nameModified)

(***************************************************************************)
(* Product routes.  A request body is a record; `has` lists the fields a   *)
(* PUT body supplies.  A null entry of a categories list is NoRef.         *)
(***************************************************************************)
\* categories.filter(categoryId => categoryId && ...)
RECURSIVE FilterCategories(_)
FilterCategories(cs) ==
    IF cs = <<>> THEN <<>>
    ELSE IF Head(cs) # NoRef THEN <<Head(cs)>> \o FilterCategories(Tail(cs))
    ELSE FilterCategories(Tail(cs))

\* for (const categoryId of ...) { Category.findById ... }: the first missing id, or NoRef
RECURSIVE FirstMissingCategory(_)
FirstMissingCategory(cs) ==
    IF cs = <<>> THEN NoRef
    ELSE IF ~CategoryExists(Head(cs)) THEN Head(cs)
    ELSE FirstMissingCategory(Tail(cs))

\* body('name').trim().isLength({ min: 2, max: 100 })
ValidName(name) == Len(name) >= 2 /\ Len(name) <= 100

\* body('categories').isArray({ min: 1 }), body('categories.*').isMongoId()
ValidCategoriesField(cs) == Len(cs) >= 1 /\ \A i \in DOMAIN cs : cs[i] # NoRef

\* body('price').isFloat({ min: 0 })
ValidPrice(price) == price >= 0

\* a slip in the checks: nothing looks at the categories of the body
CreateProductErrorWithoutCategories(body) ==
    IF ~(ValidName(body.name) /\ ValidPrice(body.price))
    THEN [code |-> 400, msg |-> "Validation errors", ref |-> NoRef]
    ELSE [code |-> 201, msg |-> "Product created successfully", ref |-> NoRef]

\* the checks of POST /api/products before anything is written
CreateProductError(body) ==
    IF ~(ValidName(body.name) /\ ValidCategoriesField(body.categories) /\ ValidPrice(body.price))
    THEN [code |-> 400, msg |-> "Validation errors", ref |-> NoRef]
    ELSE IF Len(FilterCategories(body.categories)) = 0
    THEN [code |-> 400, msg |-> "At least one category is required", ref |-> NoRef]
    ELSE IF FirstMissingCategory(FilterCategories(body.categories)) # NoRef
    THEN [code |-> 400, msg |-> "Category not found",
          ref |-> FirstMissingCategory(FilterCategories(body.categories))]
    ELSE [code |-> 201, msg |-> "Product created successfully", ref |-> NoRef]

\* new Product({...}) with the schema defaults, then save()
NewProduct(body, self) ==
    SaveProduct([exists |-> TRUE, name |-> body.name,
                 categories |-> FilterCategories(body.categories), category |-> NoRef,
                 price |-> body.price, isAvailable |-> TRUE, slug |-> <<>>, views |-> 0],
                self, TRUE)

\* POST /api/products
CreateProduct(admin, body) ==
    /\ IsAdmin(admin)
    /\ LET e == CreateProductError(body)
           self == Len(products) + 1
       IN  /\ products' = IF e.code = 201 THEN Append(products, NewProduct(body, self))
                          ELSE products
           /\ last' = Response("createProduct", admin, IF e.code = 201 THEN self ELSE NoRef,
                               e.code, e.msg, e.ref)
    /\ UNCHANGED <<users, categories, orders, inflight>>

\* the answer of both product handlers to error.code === 11000 on the slug index
DuplicateSlugMessage ==
    "A product with this name already exists. Please use a different name."

(***************************************************************************)
(* POST /api/products as the steps other requests can run between: the     *)
(* checks and new Product(), each findOne of the probe loop, the insert.   *)
(* CreateProduct above is these steps run without interruption.            *)
(***************************************************************************)
RemoveAt(seq, i) == SubSeq(seq, 1, i - 1) \o SubSeq(seq, i + 1, Len(seq))

\* the document handed to save(): hook #1 has run, hook #2 starts its loop
NewInflight(admin, body) ==
    [admin |-> admin,
     doc |-> SyncCategory([exists |-> TRUE, name |-> body.name,
                           categories |-> FilterCategories(body.categories),
                           category |-> NoRef, price |-> body.price,
                           isAvailable |-> TRUE, slug |-> <<>>, views |-> 0]),
     baseSlug |-> BaseSlug(body.name), slug |-> BaseSlug(body.name), counter |-> 1,
     phase |-> "probe"]

\* validation, category checks, new Product({...}), the call of save()
BeginCreateProduct(admin, body) ==
    /\ IsAdmin(admin)
    /\ LET e == CreateProductError(body)
       IN  IF e.code = 201
           THEN /\ inflight' = Append(inflight, NewInflight(admin, body))
                /\ last' = Response("beginCreateProduct", admin, NoRef, 0, "", NoRef)
           ELSE /\ inflight' = inflight
                /\ last' = Response("createProduct", admin, NoRef, e.code, e.msg, e.ref)
    /\ UNCHANGED <<users, categories, products, orders>>

\* one turn of while (true): a findOne on the current slug
ProbeStep(i) ==
    /\ i \in DOMAIN inflight
    /\ inflight[i].phase = "probe"
    /\ inflight' =
         IF SlugTaken(inflight[i].slug, NoRef)
         THEN [inflight EXCEPT
                 ![i].slug = SlugCandidate(inflight[i].baseSlug, inflight[i].counter),
                 ![i].counter = @ + 1]
         ELSE [inflight EXCEPT ![i].phase = "save"]
    /\ last' = Response("probeSlug", inflight[i].admin, NoRef, 0, "", NoRef)
    /\ UNCHANGED <<users, categories, products, orders>>

\* a slip in the store: the slug index is not unique
InsertProductErrorWithoutIndex(slug) ==
    [code |-> 201, msg |-> "Product created successfully", ref |-> NoRef]

\* the insert under the unique slug index, and the handler's catch block
InsertProductError(slug) ==
    IF SlugTaken(slug, NoRef)
    THEN [code |-> 400, msg |-> DuplicateSlugMessage, ref |-> NoRef]
    ELSE [code |-> 201, msg |-> "Product created successfully", ref |-> NoRef]

\* this.slug = slug; next(); the insert; the response
InsertStep(i) ==
    /\ i \in DOMAIN inflight
    /\ inflight[i].phase = "save"
    /\ LET e == InsertProductError(inflight[i].slug)
       IN  /\ products' =
                IF e.code = 201
                THEN Append(products, [inflight[i].doc EXCEPT !.slug = inflight[i].slug])
                ELSE products
           /\ last' = Response("createProduct", inflight[i].admin,
                               IF e.code = 201 THEN Len(products) + 1 ELSE NoRef,
                               e.code, e.msg, e.ref)
    /\ inflight' = RemoveAt(inflight, i)
    /\ UNCHANGED <<users, categories, orders>>

\* the checks of PUT /api/products/:id before findByIdAndUpdate
UpdateProductError(id, body) ==
    IF ~(/\ ("name" \in body.has => ValidName(body.name))
         /\ ("categories" \in body.has => ValidCategoriesField(body.categories))
         /\ ("price" \in body.has => ValidPrice(body.price)))
    THEN [code |-> 400, msg |-> "Validation errors", ref |-> NoRef]
    ELSE IF ~ProductExists(id)
    THEN [code |-> 404, msg |-> "Product not found", ref |-> NoRef]
    ELSE IF "categories" \in body.has /\ Len(FilterCategories(body.categories)) = 0
    THEN [code |-> 400, msg |-> "At least one category is required", ref |-> NoRef]
    ELSE IF "categories" \in body.has
            /\ FirstMissingCategory(FilterCategories(body.categories)) # NoRef
    THEN [code |-> 400, msg |-> "Category not found",
          ref |-> FirstMissingCategory(FilterCategories(body.categories))]
    ELSE IF "slug" \in body.has /\ SlugTaken(ToLowerCase(body.slug), id)
    THEN [code |-> 400, msg |-> DuplicateSlugMessage, ref |-> NoRef]
    ELSE [code |-> 200, msg |-> "Product updated successfully", ref |-> NoRef]

\* Product.findByIdAndUpdate(id, req.body): the supplied fields are set, no hook runs
FindByIdAndUpdate(doc, body) ==
    [doc EXCEPT
       !.name = IF "name" \in body.has THEN body.name ELSE @,
       !.categories = IF "categories" \in body.has
                      THEN FilterCategories(body.categories) ELSE @,
       !.price = IF "price" \in body.has THEN body.price ELSE @,
       !.isAvailable = IF "isAvailable" \in body.has THEN body.isAvailable ELSE @,
       !.slug = IF "slug" \in body.has THEN ToLowerCase(body.slug) ELSE @]

\* PUT /api/products/:id
UpdateProduct(admin, id, body) ==
    /\ IsAdmin(admin)
    /\ LET e == UpdateProductError(id, body)
       IN  /\ products' = IF e.code = 200
                          THEN [products EXCEPT ![id] = FindByIdAndUpdate(@, body)]
                          ELSE products
           /\ last' = Response("updateProduct", admin, id, e.code, e.msg, e.ref)
    /\ UNCHANGED <<users, categories, orders, inflight>>

\* DELETE /api/products/:id
DeleteProduct(admin, id) ==
    /\ IsAdmin(admin)
    /\ IF ProductExists(id)
       THEN /\ products' = [products EXCEPT ![id] = ProductTombstone]
            /\ last' = Response("deleteProduct", admin, id, 200,
                                "Product deleted successfully", NoRef)
       ELSE /\ products' = products
            /\ last' = Response("deleteProduct", admin, id, 404, "Product not found", NoRef)
    /\ UNCHANGED <<users, categories, orders, inflight>>

\* .populate('categories', ...): references to deleted categories drop out
PopulatedCategories(doc) == SelectSeq(doc.categories, CategoryExists)

\* product.views += 1; product.save() on the populated document: the hooks see
\* the populated categories, and only views and category are written back
ViewedProduct(doc, self) ==
    LET saved == SaveProduct([doc EXCEPT !.categories = PopulatedCategories(doc),
                                         !.views = doc.views + 1], self, FALSE)
    IN  [doc EXCEPT !.views = saved.views, !.category = saved.category]

\* GET /api/products/:id; viewer is NoRef for an anonymous request
GetProduct(viewer, id) ==
    /\ viewer = NoRef \/ UserExists(viewer)
    /\ IF ~ProductExists(id)
       THEN /\ products' = products
            /\ last' = Response("getProduct", viewer, id, 404, "Product not found", NoRef)
       ELSE IF ~products[id].isAvailable
       THEN /\ products' = products
            /\ last' = Response("getProduct", viewer, id, 404,
                                "Product is not available", NoRef)
       ELSE /\ products' = IF viewer # NoRef
                          THEN [products EXCEPT ![id] = ViewedProduct(products[id], id)]
                          ELSE products
            /\ last' = Response("getProduct", viewer, id, 200, "ok", NoRef)
    /\ UNCHANGED <<users, categories, orders, inflight>>

\* GET /api/products/slug/:slug: findOne({ slug, isAvailable: true })
FindBySlug(slug) ==
    IF \E p \in DOMAIN products :
          products[p].exists /\ products[p].isAvailable /\ products[p].slug = slug
    THEN CHOOSE p \in DOMAIN products :
          products[p].exists /\ products[p].isAvailable /\ products[p].slug = slug
    ELSE NoRef

\* GET /api/products/slug/:slug
GetProductBySlug(viewer, slug) ==
    /\ viewer = NoRef \/ UserExists(viewer)
    /\ IF FindBySlug(slug) = NoRef
       THEN /\ products' = products
            /\ last' = Response("getProductBySlug", viewer, NoRef, 404,
                                "Product not found", NoRef)
       ELSE /\ products' =
                 IF viewer # NoRef
                 THEN [products EXCEPT
                         ![FindBySlug(slug)] =
                             ViewedProduct(products[FindBySlug(slug)], FindBySlug(slug))]
                 ELSE products
            /\ last' = Response("getProductBySlug", viewer, FindBySlug(slug), 200, "ok", NoRef)
    /\ UNCHANGED <<users, categories, orders, inflight>>

\* the response of a listing: the ids of the returned page, in order
ListResponse(op, who, target, items, page, limit) ==
    [op |-> op, who |-> who, target |-> target, code |-> 200, msg |-> "ok", ref |-> NoRef,
     items |-> items, page |-> page, limit |-> limit]

\* a slip in the page count: the quotient is rounded down
TotalPagesRoundedDown(total, limit) == total \div limit

\* Math.ceil(total / limit)
TotalPages(total, limit) ==
    IF total % limit = 0 THEN total \div limit ELSE (total \div limit) + 1

\* total = countDocuments(filter) and totalPages, as every listing reports them
Counted(response, total) ==
    [total |-> total, totalPages |-> TotalPages(total, response.limit)] @@ response

\* a slip in the filter: the legacy field is not looked at
MatchesFilterCategoriesOnly(doc, category) ==
    /\ doc.exists
    /\ doc.isAvailable
    /\ category # NoRef => \E i \in DOMAIN doc.categories : doc.categories[i] = category

\* { isAvailable: true, $or: [{ category: c }, { categories: c }] }; no $or without c
MatchesFilter(doc, category) ==
    /\ doc.exists
    /\ doc.isAvailable
    /\ category # NoRef =>
          (doc.category = category \/ \E i \in DOMAIN doc.categories : doc.categories[i] = category)

\* .sort({ createdAt: +-1 }): documents are numbered in the order they were created
RECURSIVE FindSorted(_, _, _)
FindSorted(category, order, n) ==
    IF n = 0 THEN <<>>
    ELSE LET rest == FindSorted(category, order, n - 1)
             hit == IF MatchesFilter(products[n], category) THEN <<n>> ELSE <<>>
         IN  IF order = "desc" THEN hit \o rest ELSE rest \o hit

\* .limit(limit * 1).skip((page - 1) * limit)
SkipLimit(found, page, limit) ==
    SubSeq(found, (page - 1) * limit + 1,
           IF page * limit < Len(found) THEN page * limit ELSE Len(found))

\* Product.updateMany({ _id: { $in: productIds } }, { $inc: { views: 1 } })
IncViews(ids) ==
    [p \in DOMAIN products |->
        IF \E i \in DOMAIN ids : ids[i] = p
        THEN [products[p] EXCEPT !.views = @ + 1]
        ELSE products[p]]

\* GET /api/products; category is NoRef when the query has none
ListProducts(viewer, category, order, page, limit) ==
    /\ viewer = NoRef \/ UserExists(viewer)
    /\ LET items == SkipLimit(FindSorted(category, order, Len(products)), page, limit)
       IN  /\ products' = IF viewer # NoRef THEN IncViews(items) ELSE products
           /\ last' = Counted(ListResponse("listProducts", viewer, category, items,
                                            page, limit),
                               Len(FindSorted(category, order, Len(products))))
    /\ UNCHANGED <<users, categories, orders, inflight>>

\* GET /api/products/category/:categoryId
ListProductsByCategory(viewer, category, order, page, limit) ==
    /\ viewer = NoRef \/ UserExists(viewer)
    /\ category # NoRef
    /\ last' = Counted(ListResponse("listProductsByCategory", viewer, category,
                                    SkipLimit(FindSorted(category, order, Len(products)),
                                              page, limit),
                                    page, limit),
                       Len(FindSorted(category, order, Len(products))))
    /\ UNCHANGED <<users, categories, products, orders, inflight>>

\* migrate-to-multiple-categories.js: categories missing or of size 0
NeedsMigration(doc) == doc.exists /\ Len(doc.categories) = 0

\* a migration that rewrites every product that has a category
MigrateProductOverwriting(doc, self) ==
    IF doc.exists /\ doc.category # NoRef
    THEN SaveProduct([doc EXCEPT !.categories = <<doc.category>>], self, FALSE)
    ELSE doc

MigrateProduct(doc, self) ==
    IF NeedsMigration(doc) /\ doc.category # NoRef
    THEN SaveProduct([doc EXCEPT !.categories = <<doc.category>>], self, FALSE)
    ELSE doc

MigrateToMultipleCategories ==
    /\ products' = [p \in DOMAIN products |-> MigrateProduct(products[p], p)]
    /\ last' = Response("migrate", NoRef, NoRef, 0, "Migration completed", NoRef)
    /\ UNCHANGED <<users, categories, orders, inflight>>

(***************************************************************************)
(* Category routes.                                                        *)
(***************************************************************************)
CategoryTombstone == [exists |-> FALSE, name |-> <<>>, slug |-> <<>>, isActive |-> FALSE]

\* Category.findOne({ name })
CategoryNameTaken(name) ==
    \E c \in DOMAIN categories : categories[c].exists /\ categories[c].name = name

\* the unique index on Category.slug
CategorySlugTaken(slug) ==
    \E c \in DOMAIN categories : categories[c].exists /\ categories[c].slug = slug

\* body('name').trim().isLength({ min: 2, max: 50 })
ValidCategoryName(name) == Len(name) >= 2 /\ Len(name) <= 50

\* POST /api/categories
CreateCategory(admin, name) ==
    /\ IsAdmin(admin)
    /\ IF ~ValidCategoryName(name)
       THEN /\ categories' = categories
            /\ last' = Response("createCategory", admin, NoRef, 400, "Validation errors", NoRef)
       ELSE IF CategoryNameTaken(name)
       THEN /\ categories' = categories
            /\ last' = Response("createCategory", admin, NoRef, 400,
                                "Category with this name already exists", NoRef)
       ELSE IF CategorySlugTaken(BaseSlug(name))
       THEN /\ categories' = categories
            /\ last' = Response("createCategory", admin, NoRef, 500,
                                "Server error while creating category", NoRef)
       ELSE /\ categories' = Append(categories,
                                    [exists |-> TRUE, name |-> name, slug |-> BaseSlug(name),
                                     isActive |-> TRUE])
            /\ last' = Response("createCategory", admin, Len(categories) + 1, 201,
                                "Category created successfully", NoRef)
    /\ UNCHANGED <<users, products, orders, inflight>>

\* a slip in the store: the slug index of categories is not unique
CategorySlugTakenByNone(slug, self) == FALSE

\* the unique index on Category.slug, seen by a save of document self
CategorySlugTakenByOther(slug, self) ==
    \E c \in DOMAIN categories :
        c # self /\ categories[c].exists /\ categories[c].slug = slug

\* PUT /api/categories/:id; of the fields it copies, name and isActive are modelled
UpdateCategory(admin, id, body) ==
    /\ IsAdmin(admin)
    /\ IF "name" \in body.has /\ ~ValidCategoryName(body.name)
       THEN /\ categories' = categories
            /\ last' = Response("updateCategory", admin, id, 400, "Validation errors", NoRef)
       ELSE IF ~CategoryExists(id)
       THEN /\ categories' = categories
            /\ last' = Response("updateCategory", admin, id, 404, "Category not found", NoRef)
       ELSE IF "name" \in body.has /\ body.name # categories[id].name
               /\ CategoryNameTaken(body.name)
       THEN /\ categories' = categories
            /\ last' = Response("updateCategory", admin, id, 400,
                                "Category with this name already exists", NoRef)
       ELSE IF "name" \in body.has /\ body.name # categories[id].name
               /\ CategorySlugTakenByOther(BaseSlug(body.name), id)
       THEN /\ categories' = categories
            /\ last' = Response("updateCategory", admin, id, 500,
                                "Server error while updating category", NoRef)
       ELSE /\ categories' =
                 [categories EXCEPT
                    ![id].name = IF "name" \in body.has THEN body.name ELSE @,
                    ![id].slug = IF "name" \in body.has /\ body.name # categories[id].name
                                 THEN BaseSlug(body.name) ELSE @,
                    ![id].isActive = IF "isActive" \in body.has THEN body.isActive ELSE @]
            /\ last' = Response("updateCategory", admin, id, 200,
                                "Category updated successfully", NoRef)
    /\ UNCHANGED <<users, products, orders, inflight>>

\* DELETE /api/categories/:id
DeleteCategory(admin, id) ==
    /\ IsAdmin(admin)
    /\ IF CategoryExists(id)
       THEN /\ categories' = [categories EXCEPT ![id] = CategoryTombstone]
            /\ last' = Response("deleteCategory", admin, id, 200,
                                "Category deleted successfully", NoRef)
       ELSE /\ categories' = categories
            /\ last' = Response("deleteCategory", admin, id, 404, "Category not found", NoRef)
    /\ UNCHANGED <<users, products, orders, inflight>>

(***************************************************************************)
(* User routes.                                                            *)
(***************************************************************************)
\* a slip in the handler: the test against the requester's own id is left out
DeleteUserWithoutSelfCheck(admin, id) ==
    /\ IsAdmin(admin)
    /\ IF ~UserExists(id)
       THEN /\ users' = users
            /\ last' = Response("deleteUser", admin, id, 404, "User not found", NoRef)
       ELSE /\ users' = [users EXCEPT ![id].exists = FALSE]
            /\ last' = Response("deleteUser", admin, id, 200,
                                "User deleted successfully", NoRef)
    /\ UNCHANGED <<categories, products, orders, inflight>>

\* body('role').optional().isIn(['user', 'admin']), body('isActive').optional().isBoolean()
ValidUserBody(body) ==
    /\ "role" \in body.has => body.role \in {"user", "admin"}
    /\ "isActive" \in body.has => body.isActive \in BOOLEAN

\* PUT /api/users/:id; of the fields it copies, role, isActive and address are modelled
UpdateUser(admin, id, body) ==
    /\ IsAdmin(admin)
    /\ IF ~ValidUserBody(body)
       THEN /\ users' = users
            /\ last' = Response("updateUser", admin, id, 400, "Validation errors", NoRef)
       ELSE IF ~UserExists(id)
       THEN /\ users' = users
            /\ last' = Response("updateUser", admin, id, 404, "User not found", NoRef)
       ELSE /\ users' = [users EXCEPT
                 ![id].role = IF "role" \in body.has THEN body.role ELSE @,
                 ![id].isActive = IF "isActive" \in body.has THEN body.isActive ELSE @,
                 ![id].address = IF "address" \in body.has THEN body.address ELSE @]
            /\ last' = Response("updateUser", admin, id, 200,
                                "User updated successfully", NoRef)
    /\ UNCHANGED <<categories, products, orders, inflight>>

\* PUT /api/users/:id/toggle-status
ToggleUserStatus(admin, id) ==
    /\ IsAdmin(admin)
    /\ IF ~UserExists(id)
       THEN /\ users' = users
            /\ last' = Response("toggleUserStatus", admin, id, 404, "User not found", NoRef)
       ELSE IF id = admin
       THEN /\ users' = users
            /\ last' = Response("toggleUserStatus", admin, id, 400,
                                "Cannot deactivate your own account", NoRef)
       ELSE /\ users' = [users EXCEPT ![id].isActive = ~@]
            /\ last' = Response("toggleUserStatus", admin, id, 200,
                                IF users[id].isActive THEN "User deactivated successfully"
                                ELSE "User activated successfully", NoRef)
    /\ UNCHANGED <<categories, products, orders, inflight>>

\* DELETE /api/users/:id
DeleteUser(admin, id) ==
    /\ IsAdmin(admin)
    /\ IF ~UserExists(id)
       THEN /\ users' = users
            /\ last' = Response("deleteUser", admin, id, 404, "User not found", NoRef)
       ELSE IF id = admin
       THEN /\ users' = users
            /\ last' = Response("deleteUser", admin, id, 400,
                                "Cannot delete your own account", NoRef)
       ELSE /\ users' = [users EXCEPT ![id].exists = FALSE]
            /\ last' = Response("deleteUser", admin, id, 200,
                                "User deleted successfully", NoRef)
    /\ UNCHANGED <<categories, products, orders, inflight>>

(***************************************************************************)
(* Order routes.                                                           *)
(***************************************************************************)
OrderExists(o) == o \in DOMAIN orders

\* the express-validator chain of POST /api/orders and POST /api/orders/guest;
\* fieldsValid stands for the address, payment-method and ISO-8601 checks
ValidOrderBody(body) ==
    /\ body.fieldsValid
    /\ Len(body.items) >= 1
    /\ \A i \in DOMAIN body.items :
          body.items[i].quantity >= 1 /\ body.items[i].rentalDuration >= 1

\* today.setHours(0, 0, 0, 0)
Today(now) == now - (now % DayLen)

\* a slip in the end-date rule: an end date equal to the start date passes
OrderDateErrorStrictEnd(body, now) ==
    IF body.rentalStartDate < Today(now) THEN "Rental start date cannot be in the past"
    ELSE IF body.rentalEndDate < body.rentalStartDate
    THEN "Rental end date must be after start date"
    ELSE IF body.needDate < Today(now) THEN "Need date cannot be in the past"
    ELSE "ok"

\* the three date rules, in the order the handler tests them
OrderDateError(body, now) ==
    IF body.rentalStartDate < Today(now) THEN "Rental start date cannot be in the past"
    ELSE IF body.rentalEndDate <= body.rentalStartDate
    THEN "Rental end date must be after start date"
    ELSE IF body.needDate < Today(now) THEN "Need date cannot be in the past"
    ELSE "ok"

\* one pass of `for (const item of items)`
OrderItem(item) ==
    [product |-> item.product, quantity |-> item.quantity, rentalDuration |-> 1,
     price |-> products[item.product].price,
     totalPrice |-> products[item.product].price * item.quantity * 1]

\* a slip in the item loop: the availability test is left out
RECURSIVE OrderItemsIgnoringAvailability(_, _, _)
OrderItemsIgnoringAvailability(items, orderItems, subtotal) ==
    IF items = <<>>
    THEN [msg |-> "ok", ref |-> NoRef, items |-> orderItems, subtotal |-> subtotal]
    ELSE IF ~ProductExists(Head(items).product)
    THEN [msg |-> "Product not found", ref |-> Head(items).product,
          items |-> <<>>, subtotal |-> 0]
    ELSE OrderItemsIgnoringAvailability(
             Tail(items), Append(orderItems, OrderItem(Head(items))),
             subtotal + OrderItem(Head(items)).totalPrice)

\* the item loop: stops at the first product that is missing or unavailable
RECURSIVE OrderItems(_, _, _)
OrderItems(items, orderItems, subtotal) ==
    IF items = <<>>
    THEN [msg |-> "ok", ref |-> NoRef, items |-> orderItems, subtotal |-> subtotal]
    ELSE IF ~ProductExists(Head(items).product)
    THEN [msg |-> "Product not found", ref |-> Head(items).product,
          items |-> <<>>, subtotal |-> 0]
    ELSE IF ~products[Head(items).product].isAvailable
    THEN [msg |-> "Product is not available", ref |-> Head(items).product,
          items |-> <<>>, subtotal |-> 0]
    ELSE OrderItems(Tail(items), Append(orderItems, OrderItem(Head(items))),
                    subtotal + OrderItem(Head(items)).totalPrice)

\* a slip in the threshold: free shipping from 100 on
ShippingCostFromThreshold(subtotal) == IF subtotal >= Units(100) THEN 0 ELSE Units(10)

\* subtotal > 100 ? 0 : 10
ShippingCost(subtotal) == IF subtotal > Units(100) THEN 0 ELSE Units(10)

\* subtotal * 0.08
Tax(subtotal) == (subtotal * 8) \div 100

\* a slip in the total: the shipping cost is left out
TotalAmountWithoutShipping(subtotal, shippingCost, tax) == subtotal + tax

\* subtotal + shippingCost + tax
TotalAmount(subtotal, shippingCost, tax) == subtotal + shippingCost + tax

\* new Date() of a request clock: tick 0 falls on 30 December 2026, and the
\* clock is read within the thirty days that follow
CalendarDate(now) ==
    LET d == now \div DayLen
    IN  IF d < 2 THEN [year |-> 2026, month |-> 12, day |-> 30 + d]
        ELSE [year |-> 2027, month |-> 1, day |-> d - 1]

\* String.prototype.padStart(n, '0')
RECURSIVE PadStart(_, _)
PadStart(s, n) == IF Len(s) >= n THEN s ELSE PadStart(<<"0">> \o s, n)

\* String.prototype.slice(-2)
SliceLastTwo(s) == IF Len(s) <= 2 THEN s ELSE SubSeq(s, Len(s) - 1, Len(s))

\* a slip in the hook: the parts are joined without padding
OrderNumberUnpadded(now, random) ==
    <<"O", "R", "D">>
        \o SliceLastTwo(NumberToString(CalendarDate(now).year))
        \o NumberToString(CalendarDate(now).month)
        \o NumberToString(CalendarDate(now).day)
        \o NumberToString(random)

\* orderSchema.pre('save'): ORD + yy + mm + dd of the day + the random suffix
OrderNumber(now, random) ==
    <<"O", "R", "D">>
        \o SliceLastTwo(NumberToString(CalendarDate(now).year))
        \o PadStart(NumberToString(CalendarDate(now).month), 2)
        \o PadStart(NumberToString(CalendarDate(now).day), 2)
        \o PadStart(NumberToString(random), 3)

\* the unique index on orderNumber
OrderNumberTaken(number) == \E o \in DOMAIN orders : orders[o].orderNumber = number

\* new Order({...}) with the schema defaults and the number given by pre('save')
NewOrder(user, isGuestOrder, priced, now, random) ==
    [user |-> user, isGuestOrder |-> isGuestOrder, items |-> priced.items,
     subtotal |-> priced.subtotal,
     shippingCost |-> ShippingCost(priced.subtotal),
     tax |-> Tax(priced.subtotal),
     totalAmount |-> TotalAmount(priced.subtotal, ShippingCost(priced.subtotal),
                                 Tax(priced.subtotal)),
     orderStatus |-> "Pending", paymentStatus |-> "Pending", adminNotes |-> "",
     orderNumber |-> OrderNumber(now, random)]

\* a slip in the handler: the item loop runs before the date rules
CreateOrderErrorItemsFirst(body, now, random) ==
    IF ~ValidOrderBody(body)
    THEN [code |-> 400, msg |-> "Validation errors", ref |-> NoRef]
    ELSE IF OrderItems(body.items, <<>>, 0).msg # "ok"
    THEN [code |-> 400, msg |-> OrderItems(body.items, <<>>, 0).msg,
          ref |-> OrderItems(body.items, <<>>, 0).ref]
    ELSE IF OrderDateError(body, now) # "ok"
    THEN [code |-> 400, msg |-> OrderDateError(body, now), ref |-> NoRef]
    ELSE IF OrderNumberTaken(OrderNumber(now, random))
    THEN [code |-> 500, msg |-> "Server error while creating order", ref |-> NoRef]
    ELSE [code |-> 201, msg |-> "Order created successfully", ref |-> NoRef]

\* the answer of the creation handler, before anything is written
CreateOrderError(body, now, random) ==
    IF ~ValidOrderBody(body)
    THEN [code |-> 400, msg |-> "Validation errors", ref |-> NoRef]
    ELSE IF OrderDateError(body, now) # "ok"
    THEN [code |-> 400, msg |-> OrderDateError(body, now), ref |-> NoRef]
    ELSE IF OrderItems(body.items, <<>>, 0).msg # "ok"
    THEN [code |-> 400, msg |-> OrderItems(body.items, <<>>, 0).msg,
          ref |-> OrderItems(body.items, <<>>, 0).ref]
    ELSE IF OrderNumberTaken(OrderNumber(now, random))
    THEN [code |-> 500, msg |-> "Server error while creating order", ref |-> NoRef]
    ELSE [code |-> 201, msg |-> "Order created successfully", ref |-> NoRef]

PlaceOrder(op, who, user, isGuestOrder, body, now, random) ==
    LET e == CreateOrderError(body, now, random)
    IN  /\ orders' = IF e.code = 201
                     THEN Append(orders,
                                 [shippingAddress |-> body.shippingAddress]
                                 @@ NewOrder(user, isGuestOrder,
                                             OrderItems(body.items, <<>>, 0), now, random))
                     ELSE orders
        /\ last' = Response(op, who, IF e.code = 201 THEN Len(orders) + 1 ELSE NoRef,
                            e.code, e.msg, e.ref)
        /\ UNCHANGED <<users, categories, products, inflight>>

\* POST /api/orders
CreateOrder(requester, body, now, random) ==
    /\ UserExists(requester)
    /\ PlaceOrder("createOrder", requester, requester, FALSE, body, now, random)

\* a slip in the guest entry point: the guest flag is left at its default
CreateGuestOrderUnflagged(body, now, random) ==
    PlaceOrder("createGuestOrder", NoRef, NoRef, FALSE, body, now, random)

\* POST /api/orders/guest
CreateGuestOrder(body, now, random) ==
    PlaceOrder("createGuestOrder", NoRef, NoRef, TRUE, body, now, random)

\* .populate('user', ...): the referenced account, or null when there is none
PopulatedUser(order) == IF UserExists(order.user) THEN order.user ELSE NoRef

\* GET /api/orders/:id; ref is the order whose data the response carries
GetOrder(requester, id) ==
    /\ UserExists(requester)
    /\ last' =
         IF ~OrderExists(id)
         THEN Response("getOrder", requester, id, 404, "Order not found", NoRef)
         ELSE IF ~IsAdmin(requester) /\ PopulatedUser(orders[id]) = NoRef
         THEN Response("getOrder", requester, id, 500,
                       "Server error while fetching order", NoRef)
         ELSE IF ~IsAdmin(requester) /\ PopulatedUser(orders[id]) # requester
         THEN Response("getOrder", requester, id, 403, "Access denied", NoRef)
         ELSE Response("getOrder", requester, id, 200, "ok", id)
    /\ UNCHANGED <<users, categories, products, orders, inflight>>

\* body('orderStatus').isIn([...]), body('paymentStatus').optional().isIn([...])
ValidStatusBody(body) ==
    /\ body.orderStatus \in OrderStatuses
    /\ "paymentStatus" \in body.has => body.paymentStatus \in PaymentStatuses

\* a slip in the handler: the items are re-read from the catalogue on a status change
UpdateOrderStatusRepricing(admin, id, body) ==
    /\ IsAdmin(admin)
    /\ IF ~ValidStatusBody(body)
       THEN /\ orders' = orders
            /\ last' = Response("updateOrderStatus", admin, id, 400,
                                "Validation errors", NoRef)
       ELSE IF ~OrderExists(id)
       THEN /\ orders' = orders
            /\ last' = Response("updateOrderStatus", admin, id, 404,
                                "Order not found", NoRef)
       ELSE /\ orders' = [orders EXCEPT
                 ![id].orderStatus = body.orderStatus,
                 ![id].items =
                     [i \in DOMAIN orders[id].items |->
                        IF ProductExists(orders[id].items[i].product)
                        THEN [orders[id].items[i] EXCEPT
                                 !.price = products[orders[id].items[i].product].price]
                        ELSE orders[id].items[i]]]
            /\ last' = Response("updateOrderStatus", admin, id, 200,
                                "Order status updated successfully", id)
    /\ UNCHANGED <<users, categories, products, inflight>>

\* a slip in the handler: a cancelled or delivered order is no longer moved
UpdateOrderStatusWithTerminals(admin, id, body) ==
    /\ IsAdmin(admin)
    /\ IF ~ValidStatusBody(body)
       THEN /\ orders' = orders
            /\ last' = Response("updateOrderStatus", admin, id, 400,
                                "Validation errors", NoRef)
       ELSE IF ~OrderExists(id)
       THEN /\ orders' = orders
            /\ last' = Response("updateOrderStatus", admin, id, 404,
                                "Order not found", NoRef)
       ELSE IF orders[id].orderStatus \in {"Cancelled", "Delivered"}
       THEN /\ orders' = orders
            /\ last' = Response("updateOrderStatus", admin, id, 400,
                                "Order cannot be updated at this stage", NoRef)
       ELSE /\ orders' = [orders EXCEPT
                 ![id].orderStatus = body.orderStatus,
                 ![id].paymentStatus =
                     IF "paymentStatus" \in body.has THEN body.paymentStatus ELSE @,
                 ![id].adminNotes =
                     IF "adminNotes" \in body.has /\ body.adminNotes # ""
                     THEN body.adminNotes ELSE @]
            /\ last' = Response("updateOrderStatus", admin, id, 200,
                                "Order status updated successfully", id)
    /\ UNCHANGED <<users, categories, products, inflight>>

\* PUT /api/orders/:id/status
UpdateOrderStatus(admin, id, body) ==
    /\ IsAdmin(admin)
    /\ IF ~ValidStatusBody(body)
       THEN /\ orders' = orders
            /\ last' = Response("updateOrderStatus", admin, id, 400,
                                "Validation errors", NoRef)
       ELSE IF ~OrderExists(id)
       THEN /\ orders' = orders
            /\ last' = Response("updateOrderStatus", admin, id, 404,
                                "Order not found", NoRef)
       ELSE /\ orders' = [orders EXCEPT
                 ![id].orderStatus = body.orderStatus,
                 ![id].paymentStatus =
                     IF "paymentStatus" \in body.has THEN body.paymentStatus ELSE @,
                 ![id].adminNotes =
                     IF "adminNotes" \in body.has /\ body.adminNotes # ""
                     THEN body.adminNotes ELSE @]
            /\ last' = Response("updateOrderStatus", admin, id, 200,
                                "Order status updated successfully", id)
    /\ UNCHANGED <<users, categories, products, inflight>>

\* a slip in the list: an order being processed can still be cancelled
CancellableStatusesWithProcessing == {"Pending", "Confirmed", "Processing"}

\* const cancellableStatuses = ['Pending', 'Confirmed']
CancellableStatuses == {"Pending", "Confirmed"}

\* PUT /api/orders/:id/cancel; adminNotes is req.body.adminNotes, "" when absent
CancelOrder(requester, id, adminNotes) ==
    /\ UserExists(requester)
    /\ IF ~OrderExists(id)
       THEN /\ orders' = orders
            /\ last' = Response("cancelOrder", requester, id, 404, "Order not found", NoRef)
       ELSE IF ~IsAdmin(requester) /\ orders[id].user = NoRef
       THEN /\ orders' = orders
            /\ last' = Response("cancelOrder", requester, id, 500,
                                "Server error while cancelling order", NoRef)
       ELSE IF ~IsAdmin(requester) /\ orders[id].user # requester
       THEN /\ orders' = orders
            /\ last' = Response("cancelOrder", requester, id, 403, "Access denied", NoRef)
       ELSE IF orders[id].orderStatus \notin CancellableStatuses
       THEN /\ orders' = orders
            /\ last' = Response("cancelOrder", requester, id, 400,
                                "Order cannot be cancelled in its current status", NoRef)
       ELSE /\ orders' = [orders EXCEPT
                 ![id].orderStatus = "Cancelled",
                 ![id].adminNotes =
                     IF IsAdmin(requester)
                     THEN (IF adminNotes # "" THEN adminNotes ELSE "Order cancelled by admin")
                     ELSE @]
            /\ last' = Response("cancelOrder", requester, id, 200,
                                "Order cancelled successfully", id)
    /\ UNCHANGED <<users, categories, products, inflight>>

(***************************************************************************)
(* Initial stores and request inputs.                                      *)
(***************************************************************************)
RedDress == <<"R", "e", "d", " ", "D", "r", "e", "s", "s">>

Dresses == <<"D", "r", "e", "s", "s", "e", "s">>

Prices == {Units(30), Units(40), Units(70)}

InitUsers ==
    [u \in UserIds |->
        [exists |-> TRUE, role |-> IF u \in AdminIds THEN "admin" ELSE "user",
         isActive |-> TRUE, address |-> "Home"]]

InitCategories ==
    <<[exists |-> TRUE, name |-> Dresses, slug |-> BaseSlug(Dresses), isActive |-> TRUE]>>

InitLast == Response("none", NoRef, NoRef, 0, "", NoRef)

\* the wall clock of a request: some tick of the second day
Now == DayLen + 1

Dates == (DayLen - 1) .. (2 * DayLen)

ItemInputs ==
    [product : 1 .. MaxProducts, quantity : 1 .. MaxQty, rentalDuration : {3}]

ItemLists == UNION {[1 .. n -> ItemInputs] : n \in 0 .. MaxItems}

OneItem == <<[product |-> 1, quantity |-> 1, rentalDuration |-> 1]>>

\* bodies that vary the items under valid dates, and bodies that vary the dates
OrderBodies ==
    [items : ItemLists, rentalStartDate : {DayLen}, rentalEndDate : {DayLen + 1},
     needDate : {DayLen}, fieldsValid : {TRUE}, shippingAddress : {"Home"}]
    \cup
    [items : {OneItem}, rentalStartDate : Dates, rentalEndDate : Dates,
     needDate : Dates, fieldsValid : BOOLEAN, shippingAddress : {"Home"}]

(***************************************************************************)
(* Checkout: one order request against a stocked catalogue.  The catalogue *)
(* is any table the product routes can leave behind: product i was created *)
(* with the i-th name, re-priced, withdrawn or deleted.                    *)
(***************************************************************************)
BlueGown == <<"B", "l", "u", "e", " ", "G", "o", "w", "n">>

Tuxedo == <<"T", "u", "x", "e", "d", "o">>

Lehenga == <<"L", "e", "h", "e", "n", "g", "a">>

CatalogueNames == <<RedDress, BlueGown, Tuxedo, Lehenga>>

StockedProducts(i) ==
    [exists : {TRUE}, name : {CatalogueNames[i]}, categories : {<<1>>}, category : {1},
     price : Prices, isAvailable : BOOLEAN, slug : {BaseSlug(CatalogueNames[i])},
     views : {0}]

CatalogueTables ==
    UNION {{t \in [1 .. n -> UNION {StockedProducts(i) : i \in 1 .. n} \cup {ProductTombstone}] :
              \A i \in 1 .. n : t[i] = ProductTombstone \/ t[i] \in StockedProducts(i)} :
           n \in 0 .. MaxProducts}

InitCheckout ==
    /\ users = InitUsers
    /\ categories = InitCategories
    /\ products \in CatalogueTables
    /\ orders = <<>>
    /\ last = InitLast
    /\ inflight = <<>>

CheckoutOrder ==
    /\ last.op = "none"
    /\ \E b \in OrderBodies : CreateOrder(1, b, Now, 0)

CheckoutGuestOrder ==
    /\ last.op = "none"
    /\ \E b \in OrderBodies : CreateGuestOrder(b, Now, 0)

NextCheckout == CheckoutOrder \/ CheckoutGuestOrder

SpecCheckout == InitCheckout /\ [][NextCheckout]_vars

(***************************************************************************)
(* Properties of order creation.                                           *)
(***************************************************************************)
OrderCreationOps == {"createOrder", "createGuestOrder"}

OrderCreated == Len(orders') = Len(orders) + 1

RECURSIVE SumOfTotalPrice(_)
SumOfTotalPrice(items) ==
    IF items = <<>> THEN 0 ELSE Head(items).totalPrice + SumOfTotalPrice(Tail(items))

\* the pricing rule of the specification, stated on a stored order and the
\* catalogue it was priced from
PricedByRule(order, catalogue) ==
    /\ \A i \in DOMAIN order.items :
          /\ order.items[i].price = catalogue[order.items[i].product].price
          /\ order.items[i].totalPrice = order.items[i].price * order.items[i].quantity
          /\ order.items[i].rentalDuration = 1
    /\ order.subtotal = SumOfTotalPrice(order.items)
    /\ order.shippingCost = (IF order.subtotal > Units(100) THEN 0 ELSE Units(10))
    /\ 100 * order.tax = 8 * order.subtotal
    /\ order.totalAmount = order.subtotal + order.shippingCost + order.tax

ItemPricesAndQuantities(order) ==
    [i \in DOMAIN order.items |-> <<order.items[i].price, order.items[i].quantity>>]

\* the worked examples: 40 + 70, a subtotal of 60, a subtotal of exactly 100
PricedAsInExamples(order) ==
    /\ ItemPricesAndQuantities(order) = <<<<Units(40), 1>>, <<Units(70), 1>>>>
          => /\ order.subtotal = 11000
             /\ order.shippingCost = 0
             /\ order.tax = 880
             /\ order.totalAmount = 11880
    /\ order.subtotal = 6000
          => order.shippingCost = 1000 /\ order.tax = 480 /\ order.totalAmount = 7480
    /\ order.subtotal = 10000 => order.shippingCost = 1000

\* C2: every order that a creation request (authenticated or guest) stores is
\* priced by the rule: item total = product price x quantity at a rental duration
\* of 1, subtotal = sum of the item totals, shipping 0 above 100 and 10 otherwise,
\* tax 8% of the subtotal, total = subtotal + shipping + tax; and the worked
\* examples come out as stated.
C2_OrderPricing ==
    [][OrderCreated =>
         /\ last'.op \in OrderCreationOps
         /\ PricedByRule(orders'[Len(orders')], products)
         /\ PricedAsInExamples(orders'[Len(orders')])]_vars

C2_Witness ==
    \E o \in DOMAIN orders :
        /\ ItemPricesAndQuantities(orders[o]) = <<<<Units(40), 1>>, <<Units(70), 1>>>>
        /\ orders[o].totalAmount = 11880
        /\ last.code = 201

\* the calendar day a tick belongs to starts at the last multiple of DayLen
StartOfDay(now) == CHOOSE d \in 0 .. now : d % DayLen = 0 /\ now < d + DayLen

BadDates(body, now) ==
    \/ body.rentalEndDate <= body.rentalStartDate
    \/ body.rentalStartDate < StartOfDay(now)
    \/ body.needDate < StartOfDay(now)

DateRuleMessages ==
    {"Rental start date cannot be in the past",
     "Rental end date must be after start date",
     "Need date cannot be in the past"}

RejectedLeavesOrders ==
    (last'.op \in OrderCreationOps /\ last'.code # 201) => orders' = orders

\* C7: a creation request whose end date is not after its start date, or whose
\* start date or need date lies before the start of today, is rejected with a
\* date-rule error (a well-formed request; a malformed one fails validation
\* first), and a rejected request leaves the stored orders as they were.
C7_BadDatesRejected ==
    /\ [](last.op = "none" =>
            \A b \in OrderBodies :
                BadDates(b, Now) =>
                    /\ CreateOrderError(b, Now, 0).code = 400
                    /\ ValidOrderBody(b) =>
                          CreateOrderError(b, Now, 0).msg \in DateRuleMessages)
    /\ [][RejectedLeavesOrders]_vars

C7_Witness ==
    /\ last.op \in OrderCreationOps
    /\ last.code = 400
    /\ last.msg = "Rental end date must be after start date"
    /\ orders = <<>>

BadItem(item, catalogue) ==
    \/ item.product \notin DOMAIN catalogue
    \/ ~catalogue[item.product].exists
    \/ ~catalogue[item.product].isAvailable

HasBadItem(body, catalogue) ==
    \E i \in DOMAIN body.items : BadItem(body.items[i], catalogue)

FirstBadItem(body, catalogue) ==
    body.items[CHOOSE i \in DOMAIN body.items :
                  /\ BadItem(body.items[i], catalogue)
                  /\ \A j \in 1 .. (i - 1) : ~BadItem(body.items[j], catalogue)]

ItemErrorFor(item, catalogue) ==
    IF item.product \notin DOMAIN catalogue \/ ~catalogue[item.product].exists
    THEN "Product not found"
    ELSE "Product is not available"

\* C8: a creation request with an item whose product is missing or unavailable
\* is rejected whatever its other items are; once the earlier checks pass, the
\* error names the first such item in list order; nothing is stored for a
\* rejected request; and every item of a stored order named a product that
\* existed and was available when the request was served.
C8_BadItemRejected ==
    /\ [](last.op = "none" =>
            \A b \in OrderBodies :
                HasBadItem(b, products) =>
                    /\ CreateOrderError(b, Now, 0).code = 400
                    /\ (ValidOrderBody(b) /\ ~BadDates(b, Now)) =>
                          /\ CreateOrderError(b, Now, 0).ref
                                = FirstBadItem(b, products).product
                          /\ CreateOrderError(b, Now, 0).msg
                                = ItemErrorFor(FirstBadItem(b, products), products))
    /\ [][/\ RejectedLeavesOrders
          /\ OrderCreated =>
                \A i \in DOMAIN orders'[Len(orders')].items :
                    ~BadItem(orders'[Len(orders')].items[i], products)]_vars

C8_Witness ==
    /\ last.op \in OrderCreationOps
    /\ last.code = 400
    /\ last.msg = "Product is not available"
    /\ last.ref = 2
    /\ ProductExists(1) /\ products[1].isAvailable
    /\ orders = <<>>

(***************************************************************************)
(* Lifecycle: orders placed against a fixed catalogue, then moved through  *)
(* their statuses by the admin and cancelled by customers or the admin.    *)
(***************************************************************************)
LifecycleCatalogue ==
    <<[exists |-> TRUE, name |-> RedDress, categories |-> <<1>>, category |-> 1,
       price |-> Units(40), isAvailable |-> TRUE, slug |-> BaseSlug(RedDress), views |-> 0],
      [exists |-> TRUE, name |-> BlueGown, categories |-> <<1>>, category |-> 1,
       price |-> Units(70), isAvailable |-> TRUE, slug |-> BaseSlug(BlueGown), views |-> 0]>>

LifecycleBodies ==
    [items : {<<[product |-> 1, quantity |-> 1, rentalDuration |-> 3],
                [product |-> 2, quantity |-> 1, rentalDuration |-> 3]>>,
              <<[product |-> 1, quantity |-> 1, rentalDuration |-> 3]>>},
     rentalStartDate : {DayLen}, rentalEndDate : {DayLen + 1}, needDate : {DayLen},
     fieldsValid : {TRUE}, shippingAddress : {"Home"}]

StatusBodies ==
    [orderStatus : OrderStatuses, paymentStatus : {"Pending"}, adminNotes : {""},
     has : {{}}]

InitLifecycle ==
    /\ users = InitUsers
    /\ categories = InitCategories
    /\ products = LifecycleCatalogue
    /\ orders = <<>>
    /\ last = InitLast
    /\ inflight = <<>>

LifecycleCreateOrder ==
    /\ Len(orders) < MaxOrders
    /\ \E b \in LifecycleBodies, r \in 0 .. (MaxRandom - 1) : CreateOrder(1, b, Now, r)

LifecycleCreateGuestOrder ==
    /\ Len(orders) < MaxOrders
    /\ \E b \in LifecycleBodies, r \in 0 .. (MaxRandom - 1) : CreateGuestOrder(b, Now, r)

LifecycleUpdateOrderStatus ==
    \E id \in 1 .. MaxOrders, b \in StatusBodies : UpdateOrderStatus(3, id, b)

LifecycleCancelOrder ==
    \E u \in UserIds, id \in 1 .. MaxOrders : CancelOrder(u, id, "")

NextLifecycle ==
    \/ LifecycleCreateOrder
    \/ LifecycleCreateGuestOrder
    \/ LifecycleUpdateOrderStatus
    \/ LifecycleCancelOrder

SpecLifecycle == InitLifecycle /\ [][NextLifecycle]_vars

(***************************************************************************)
(* Properties of the order lifecycle.                                      *)
(***************************************************************************)
\* C3: every stored order has totalAmount = subtotal + shippingCost + tax and
\* subtotal = the sum of its items' totalPrice, whatever creations, admin status
\* updates and cancellations have happened.
C3_TotalsInvariant ==
    \A o \in DOMAIN orders :
        /\ orders[o].totalAmount
              = orders[o].subtotal + orders[o].shippingCost + orders[o].tax
        /\ orders[o].subtotal = SumOfTotalPrice(orders[o].items)

C3_Witness ==
    \E o \in DOMAIN orders :
        /\ orders[o].orderStatus = "Cancelled"
        /\ orders[o].adminNotes = "Order cancelled by admin"
        /\ orders[o].shippingCost = Units(10)
        /\ orders[o].totalAmount = 5320
        /\ last.op = "updateOrderStatus"

\* the requester named by the response was the owner of the order or an admin
AuthorisedCancel ==
    /\ last'.op = "cancelOrder"
    /\ last'.target \in DOMAIN orders
    /\ IsAdmin(last'.who) \/ orders[last'.target].user = last'.who

UnauthorisedCancel ==
    /\ last'.op = "cancelOrder"
    /\ last'.target \in DOMAIN orders
    /\ ~IsAdmin(last'.who)
    /\ orders[last'.target].user # last'.who

\* C6: a cancel request from a non-admin who does not own the order is answered
\* with access denied (403) whatever the order's status, and the order's status
\* and admin notes stay as they were.
C6_CancelByStranger ==
    [][UnauthorisedCancel =>
         /\ last'.code = 403
         /\ orders'[last'.target].orderStatus = orders[last'.target].orderStatus
         /\ orders'[last'.target].adminNotes = orders[last'.target].adminNotes]_vars

\* a customer asks to cancel a guest order: order.user is null, the handler throws
C6_GuestOrderCancelFails ==
    /\ last.op = "cancelOrder"
    /\ last.who = 2
    /\ last.target \in DOMAIN orders
    /\ orders[last.target].user = NoRef
    /\ orders[last.target].isGuestOrder
    /\ last.code = 500

(***************************************************************************)
(* Access: orders placed by customers and guests, accounts deleted by the  *)
(* admin, and single orders fetched by id.                                 *)
(***************************************************************************)
InitAccess ==
    /\ users = InitUsers
    /\ categories = InitCategories
    /\ products = LifecycleCatalogue
    /\ orders = <<>>
    /\ last = InitLast
    /\ inflight = <<>>

AccessCreateOrder ==
    /\ Len(orders) < MaxOrders
    /\ \E u \in UserIds \ AdminIds, b \in LifecycleBodies, r \in 0 .. (MaxRandom - 1) :
          CreateOrder(u, b, Now, r)

AccessCreateGuestOrder ==
    /\ Len(orders) < MaxOrders
    /\ \E b \in LifecycleBodies, r \in 0 .. (MaxRandom - 1) : CreateGuestOrder(b, Now, r)

AccessDeleteUser == \E id \in UserIds : DeleteUser(3, id)

AccessGetOrder == \E u \in UserIds, id \in 1 .. MaxOrders : GetOrder(u, id)

NextAccess ==
    \/ AccessCreateOrder
    \/ AccessCreateGuestOrder
    \/ AccessDeleteUser
    \/ AccessGetOrder

SpecAccess == InitAccess /\ [][NextAccess]_vars

(***************************************************************************)
(* Properties of order access.                                             *)
(***************************************************************************)
\* a stored order is fetched by a non-admin who is not its owner
StrangerGetsOrder ==
    /\ last'.op = "getOrder"
    /\ last'.target \in DOMAIN orders
    /\ ~IsAdmin(last'.who)
    /\ orders[last'.target].user # last'.who

\* C5: a non-admin who fetches a stored order that is not theirs is answered
\* with access denied (403), never with not-found, a server error or the order's
\* data; guest orders and orders of deleted accounts included.
C5_StrangerDenied ==
    [][StrangerGetsOrder => last'.code = 403 /\ last'.ref = NoRef]_vars

\* a customer fetches a guest order: order.user is null, the handler throws
C5_GuestOrderFetchFails ==
    /\ last.op = "getOrder"
    /\ last.who = 2
    /\ last.target \in DOMAIN orders
    /\ orders[last.target].user = NoRef
    /\ last.code = 500

(***************************************************************************)
(* Categories: products written by every route that stores one - created,  *)
(* updated, viewed by a signed-in customer - and by the migration script.  *)
(* The store may start with a document written before `categories` was     *)
(* added to the schema.                                                    *)
(***************************************************************************)
Suits == <<"S", "u", "i", "t", "s">>

TwoCategories ==
    InitCategories
        \o <<[exists |-> TRUE, name |-> Suits, slug |-> BaseSlug(Suits), isActive |-> TRUE]>>

LegacyProduct ==
    [exists |-> TRUE, name |-> RedDress, categories |-> <<>>, category |-> 1,
     price |-> Units(40), isAvailable |-> TRUE, slug |-> BaseSlug(RedDress), views |-> 0]

\* categories arrays of a request body: empty, with null entries, with an id
\* of no category (3), and well-formed ones
CategoryListInputs == {<<>>, <<NoRef>>, <<NoRef, 1>>, <<1>>, <<2>>, <<2, 1>>, <<3>>}

ProductBodies == [name : {RedDress}, categories : CategoryListInputs, price : {Units(40)}]

ProductUpdateBodies ==
    [name : {RedDress}, categories : CategoryListInputs, price : {Units(40)},
     isAvailable : {TRUE}, has : {{"categories"}}]
    \cup
    [name : {RedDress}, categories : {<<>>}, price : {Units(40)},
     isAvailable : BOOLEAN, has : {{"isAvailable"}}]

InitCategorised ==
    /\ users = InitUsers
    /\ categories = TwoCategories
    /\ products \in {<<>>, <<LegacyProduct>>}
    /\ orders = <<>>
    /\ last = InitLast
    /\ inflight = <<>>

CategorisedCreateProduct ==
    /\ Len(products) < MaxCategorised
    /\ \E b \in ProductBodies : CreateProduct(3, b)

CategorisedUpdateProduct ==
    \E id \in 1 .. MaxCategorised, b \in ProductUpdateBodies : UpdateProduct(3, id, b)

CategorisedGetProduct ==
    \E viewer \in {NoRef, 1}, id \in 1 .. MaxCategorised :
        /\ ProductExists(id) => products[id].views < MaxViews
        /\ GetProduct(viewer, id)

NextCategorised ==
    \/ CategorisedCreateProduct
    \/ CategorisedUpdateProduct
    \/ CategorisedGetProduct
    \/ MigrateToMultipleCategories

SpecCategorised == InitCategorised /\ [][NextCategorised]_vars

(***************************************************************************)
(* Properties of the product's categories.                                 *)
(***************************************************************************)
\* C1: every stored product whose categories is non-empty has category equal
\* to the first entry of categories, after creation, update, view and migration.
C1_CategoryIsFirstOfCategories ==
    \A p \in DOMAIN products :
        (products[p].exists /\ Len(products[p].categories) > 0)
            => products[p].category = products[p].categories[1]

\* an update has replaced categories and category still names the old one
C1_UpdateLeavesCategoryBehind ==
    /\ last.op = "updateProduct"
    /\ last.code = 200
    /\ products[last.target].categories = <<2>>
    /\ products[last.target].category = 1

\* the entries of a categories array that are not null
NonNullEntries(cs) == [i \in 1 .. Cardinality({j \in DOMAIN cs : cs[j] # NoRef}) |->
                          cs[CHOOSE k \in DOMAIN cs :
                                /\ cs[k] # NoRef
                                /\ Cardinality({j \in 1 .. k : cs[j] # NoRef}) = i]]

ProductWriteOps == {"createProduct", "updateProduct"}

\* C9: a creation, or an update that supplies categories, whose categories hold
\* no entry other than null is rejected with a 400; a rejected creation or
\* update leaves the products as they were; and no creation or update leaves a
\* product with empty categories that did not have them empty before.
C9_EmptyCategoriesRejected ==
    /\ [](/\ \A b \in ProductBodies :
                NonNullEntries(b.categories) = <<>> => CreateProductError(b).code = 400
          /\ \A b \in ProductUpdateBodies, id \in DOMAIN products :
                ("categories" \in b.has /\ ProductExists(id)
                 /\ NonNullEntries(b.categories) = <<>>)
                    => UpdateProductError(id, b).code = 400)
    /\ [][last'.op \in ProductWriteOps =>
            /\ last'.code \notin {200, 201} => products' = products
            /\ \A p \in DOMAIN products' :
                  (products'[p].exists /\ products'[p].categories = <<>>)
                      => (p \in DOMAIN products /\ products[p].categories = <<>>)]_vars

C9_Witness ==
    /\ last.op = "updateProduct"
    /\ last.code = 400
    /\ last.target \in DOMAIN products
    /\ products[last.target].categories = <<2, 1>>
    /\ Len(products) = 1

(***************************************************************************)
(* Slugs: products created one after another, some under the same name,    *)
(* and deleted again.                                                      *)
(***************************************************************************)
RedDressShouted == <<"r", "e", "d", "-", "-", "D", "R", "E", "S", "S", "!">>

RedDressOne == <<"R", "e", "d", " ", "D", "r", "e", "s", "s", " ", "1">>

SlugNames == {RedDress, RedDressShouted, RedDressOne}

InitSlugs ==
    /\ users = InitUsers
    /\ categories = InitCategories
    /\ products = <<>>
    /\ orders = <<>>
    /\ last = InitLast
    /\ inflight = <<>>

SlugsCreateProduct ==
    /\ Len(products) < MaxSlugged
    /\ \E n \in SlugNames :
          CreateProduct(3, [name |-> n, categories |-> <<1>>, price |-> Units(40)])

SlugsDeleteProduct == \E id \in 1 .. MaxSlugged : DeleteProduct(3, id)

NextSlugs == SlugsCreateProduct \/ SlugsDeleteProduct

SpecSlugs == InitSlugs /\ [][NextSlugs]_vars

(***************************************************************************)
(* Properties of product slugs.                                            *)
(***************************************************************************)
RedDressSlug == <<"r", "e", "d", "-", "d", "r", "e", "s", "s">>

\* the base the three names should give, written out
ExpectedBase(name) == IF name = RedDressOne THEN RedDressSlug \o <<"-", "1">> ELSE RedDressSlug

\* base, base-1, base-2, ...: the i-th candidate, counted from 0
ExpectedCandidate(base, i) ==
    IF i = 0 THEN base
    ELSE base \o <<"-">> \o <<<<"1", "2", "3", "4", "5", "6", "7", "8", "9">>[i]>>

UsedSlugs(catalogue) == {catalogue[p].slug : p \in {q \in DOMAIN catalogue : catalogue[q].exists}}

FirstFreeCandidate(base, catalogue) ==
    ExpectedCandidate(base,
        CHOOSE i \in 0 .. Len(catalogue) :
            /\ ExpectedCandidate(base, i) \notin UsedSlugs(catalogue)
            /\ \A j \in 0 .. (i - 1) : ExpectedCandidate(base, j) \in UsedSlugs(catalogue))

ProductCreated == last'.op = "createProduct" /\ last'.code = 201

\* C10: each created product takes the first of base, base-1, base-2, ... that
\* no other stored product uses, base being the name lowercased with each run of
\* non-alphanumerics turned into one hyphen and the outer hyphens removed; so k
\* products created one after another under one name carry base, base-1, ...,
\* base-(k-1).
C10_SlugSequence ==
    /\ [][ProductCreated =>
            products'[Len(products')].slug
               = FirstFreeCandidate(ExpectedBase(products'[Len(products')].name), products)]_vars
    /\ [](\A n \in SlugNames :
             (\A p \in DOMAIN products : products[p].exists /\ products[p].name = n)
                => \A p \in DOMAIN products :
                       products[p].slug = ExpectedCandidate(ExpectedBase(n), p - 1))

C10_Witness ==
    /\ last.op = "createProduct"
    /\ last.code = 201
    /\ Len(products) = 3
    /\ \A p \in DOMAIN products : products[p].exists /\ products[p].name = RedDress
    /\ products[1].slug = RedDressSlug
    /\ products[2].slug = RedDressSlug \o <<"-", "1">>
    /\ products[3].slug = RedDressSlug \o <<"-", "2">>

(***************************************************************************)
(* Races: product creations served concurrently, with updates and          *)
(* deletions between their steps.                                          *)
(***************************************************************************)
RaceNames == {RedDress, RedDressOne}

RaceSlugs == {BaseSlug(RedDress), BaseSlug(RedDressOne)}

RaceUpdateBodies ==
    [name : RaceNames, slug : {<<>>}, has : {{"name"}}]
    \cup
    [name : {RedDress}, slug : RaceSlugs, has : {{"slug"}}]

InitRace ==
    /\ users = InitUsers
    /\ categories = InitCategories
    /\ products = <<>>
    /\ orders = <<>>
    /\ last = InitLast
    /\ inflight = <<>>

RaceBeginCreateProduct ==
    /\ Len(inflight) < MaxInflight
    /\ Len(products) + Len(inflight) < MaxRaced
    /\ \E n \in RaceNames :
          BeginCreateProduct(3, [name |-> n, categories |-> <<1>>, price |-> Units(40)])

RaceProbeStep == \E i \in 1 .. MaxInflight : ProbeStep(i)

RaceInsertStep == \E i \in 1 .. MaxInflight : InsertStep(i)

RaceUpdateProduct == \E id \in 1 .. MaxRaced, b \in RaceUpdateBodies : UpdateProduct(3, id, b)

RaceDeleteProduct == \E id \in 1 .. MaxRaced : DeleteProduct(3, id)

NextRace ==
    \/ RaceBeginCreateProduct
    \/ RaceProbeStep
    \/ RaceInsertStep
    \/ RaceUpdateProduct
    \/ RaceDeleteProduct

SpecRace == InitRace /\ [][NextRace]_vars

(***************************************************************************)
(* Properties of concurrent product writes.                                *)
(***************************************************************************)
\* an insert is attempted with a slug that a stored product already carries
LosesRace(i) ==
    /\ i \in DOMAIN inflight
    /\ inflight[i].phase = "save"
    /\ \E p \in DOMAIN products : products[p].exists /\ products[p].slug = inflight[i].slug
    /\ Len(inflight') = Len(inflight) - 1
    /\ inflight' = SubSeq(inflight, 1, i - 1) \o SubSeq(inflight, i + 1, Len(inflight))

\* C11: no two stored products carry the same slug, however creations, updates
\* and deletions interleave; a creation whose chosen slug was taken meanwhile
\* fails with the 'a product with this name already exists' error, stores
\* nothing and is not tried again.
C11_SlugsUnique ==
    /\ [](\A p, q \in DOMAIN products :
             (p # q /\ products[p].exists /\ products[q].exists)
                => products[p].slug # products[q].slug)
    /\ [][\A i \in 1 .. MaxInflight :
             (LosesRace(i) /\ last'.op = "createProduct") =>
                 /\ last'.code = 400
                 /\ last'.msg
                      = "A product with this name already exists. Please use a different name."
                 /\ products' = products]_vars

C11_Witness ==
    /\ last.op = "createProduct"
    /\ last.code = 400
    /\ last.msg = "A product with this name already exists. Please use a different name."
    /\ Len(products) = 1
    /\ products[1].slug = <<"r", "e", "d", "-", "d", "r", "e", "s", "s">>
    /\ inflight = <<>>

\* a successful update has changed the name of the product it targets
ProductRenamed ==
    /\ last'.op = "updateProduct"
    /\ last'.code = 200
    /\ products'[last'.target].name # products[last'.target].name

\* C12: after a successful update that changes a product's name, the stored slug
\* is the collision-resolved slug of the new name: the first of base, base-1, ...
\* that no other stored product uses.
C12_SlugFollowsRename ==
    [][ProductRenamed =>
         products'[last'.target].slug
            = FirstFreeCandidate(ExpectedBase(products'[last'.target].name),
                                 [products EXCEPT ![last'.target] = ProductTombstone])]_vars

\* a product renamed to "Red Dress 1" still carries the slug of "Red Dress"
C12_RenameKeepsOldSlug ==
    /\ last.op = "updateProduct"
    /\ last.code = 200
    /\ products[last.target].name = RedDressOne
    /\ products[last.target].slug = <<"r", "e", "d", "-", "d", "r", "e", "s", "s">>
    /\ Len(products) = 1

(***************************************************************************)
(* Accounts: admins promote, demote, deactivate and delete accounts.       *)
(***************************************************************************)
UserUpdateBodies ==
    [role : {"user", "admin"}, isActive : {TRUE}, has : {{"role"}}]
    \cup
    [role : {"user"}, isActive : BOOLEAN, has : {{"isActive"}}]

InitAccounts ==
    /\ users = InitUsers
    /\ categories = InitCategories
    /\ products = <<>>
    /\ orders = <<>>
    /\ last = InitLast
    /\ inflight = <<>>

AccountsUpdateUser ==
    \E a \in UserIds, id \in UserIds, b \in UserUpdateBodies : UpdateUser(a, id, b)

AccountsToggleUserStatus == \E a \in UserIds, id \in UserIds : ToggleUserStatus(a, id)

AccountsDeleteUser == \E a \in UserIds, id \in UserIds : DeleteUser(a, id)

NextAccounts ==
    \/ AccountsUpdateUser
    \/ AccountsToggleUserStatus
    \/ AccountsDeleteUser

SpecAccounts == InitAccounts /\ [][NextAccounts]_vars

(***************************************************************************)
(* Properties of account administration.                                   *)
(***************************************************************************)
ToggleOrDelete == last'.op \in {"toggleUserStatus", "deleteUser"}

\* C13: a toggle-status or delete request that an admin aims at their own id
\* is rejected (400) and leaves the accounts as they were; and no toggle or
\* delete request removes or changes the active flag of the account of the
\* admin who sent it.
C13_AdminKeepsOwnAccount ==
    [][ToggleOrDelete =>
         /\ last'.target = last'.who => (last'.code = 400 /\ users' = users)
         /\ users'[last'.who].exists
         /\ users'[last'.who].isActive = users[last'.who].isActive]_vars

C13_Witness ==
    /\ last.op = "deleteUser"
    /\ last.who = 1
    /\ last.target = 1
    /\ last.code = 400
    /\ users[1].exists /\ users[1].role = "admin"
    /\ ~users[3].exists

(***************************************************************************)
(* Browsing: one read request against a catalogue.  The catalogue is any   *)
(* table the product routes can leave behind: product i was created with   *)
(* the i-th name and one or two categories, or predates `categories`; its  *)
(* categories were replaced by an update (category staying behind), it was *)
(* withdrawn, or deleted.                                                  *)
(***************************************************************************)
ListedProducts(i) ==
    [exists : {TRUE}, name : {CatalogueNames[i]}, categories : {<<>>, <<1>>, <<2, 1>>},
     category : {1, 2}, price : {Units(40)}, isAvailable : BOOLEAN,
     slug : {BaseSlug(CatalogueNames[i])}, views : {0}]

ListedTables ==
    UNION {{t \in [1 .. n -> UNION {ListedProducts(i) : i \in 1 .. n} \cup {ProductTombstone}] :
              \A i \in 1 .. n : t[i] = ProductTombstone \/ t[i] \in ListedProducts(i)} :
           n \in 0 .. MaxListed}

InitBrowsing ==
    /\ users = InitUsers
    /\ categories = TwoCategories
    /\ products \in ListedTables
    /\ orders = <<>>
    /\ last = InitLast
    /\ inflight = <<>>

BrowsingGetProduct ==
    /\ last.op = "none"
    /\ \E viewer \in {NoRef, 1}, id \in 1 .. MaxListed : GetProduct(viewer, id)

BrowsingGetProductBySlug ==
    /\ last.op = "none"
    /\ \E viewer \in {NoRef, 1}, i \in 1 .. MaxListed :
          GetProductBySlug(viewer, BaseSlug(CatalogueNames[i]))

BrowsingListProducts ==
    /\ last.op = "none"
    /\ \E viewer \in {NoRef, 1}, c \in {NoRef, 1, 2}, order \in {"asc", "desc"},
          page \in 1 .. MaxListed, limit \in 1 .. MaxListed :
          ListProducts(viewer, c, order, page, limit)

BrowsingListProductsByCategory ==
    /\ last.op = "none"
    /\ \E viewer \in {NoRef, 1}, c \in {1, 2}, order \in {"asc", "desc"},
          page \in 1 .. MaxListed, limit \in 1 .. MaxListed :
          ListProductsByCategory(viewer, c, order, page, limit)

NextBrowsing ==
    \/ BrowsingGetProduct
    \/ BrowsingGetProductBySlug
    \/ BrowsingListProducts
    \/ BrowsingListProductsByCategory

SpecBrowsing == InitBrowsing /\ [][NextBrowsing]_vars

(***************************************************************************)
(* Properties of product reads.                                            *)
(***************************************************************************)
ListOps == {"listProducts", "listProductsByCategory"}

\* the available products that carry c in either field
InCategory(c, catalogue) ==
    {p \in DOMAIN catalogue :
        /\ catalogue[p].exists
        /\ catalogue[p].isAvailable
        /\ catalogue[p].category = c \/ c \in {catalogue[p].categories[i] :
                                                  i \in DOMAIN catalogue[p].categories}}

\* how many of n results fall on the given page
PageSize(n, page, limit) ==
    IF n <= (page - 1) * limit THEN 0
    ELSE IF n - (page - 1) * limit < limit THEN n - (page - 1) * limit ELSE limit

\* C14: a listing filtered by category c returns available products that carry
\* c in category or in categories and no other product; each page holds its
\* share of them without repetition, and a page wide enough for all of them
\* holds exactly them.
C14_CategoryFilter ==
    [][(last'.op \in ListOps /\ last'.target # NoRef) =>
         /\ \A i \in DOMAIN last'.items : last'.items[i] \in InCategory(last'.target, products)
         /\ \A i, j \in DOMAIN last'.items : last'.items[i] = last'.items[j] => i = j
         /\ Len(last'.items) = PageSize(Cardinality(InCategory(last'.target, products)),
                                        last'.page, last'.limit)
         /\ (last'.page = 1 /\ last'.limit >= Cardinality(InCategory(last'.target, products)))
               => {last'.items[i] : i \in DOMAIN last'.items}
                     = InCategory(last'.target, products)]_vars

C14_Witness ==
    /\ last.op = "listProductsByCategory"
    /\ last.target = 1
    /\ last.items = <<2, 1>>
    /\ products[1].category = 1 /\ products[1].categories = <<>>
    /\ products[2].category = 2 /\ products[2].categories = <<2, 1>>

ViewsUnchangedExcept(ids) ==
    \A p \in DOMAIN products :
        products'[p].views = products[p].views + (IF p \in ids THEN 1 ELSE 0)

\* C15: a successful single read by a signed-in viewer adds exactly 1 to the
\* views of the product read; a list read by a signed-in viewer adds exactly 1
\* to the views of every product on the returned page and of no other; a read
\* without identity changes no views.
C15_ViewsCounted ==
    [][/\ (last'.op \in {"getProduct", "getProductBySlug"} /\ last'.code = 200)
            => ViewsUnchangedExcept(IF last'.who # NoRef THEN {last'.target} ELSE {})
       /\ last'.op \in ListOps
            => ViewsUnchangedExcept(IF last'.who # NoRef
                                    THEN {last'.items[i] : i \in DOMAIN last'.items}
                                    ELSE {})]_vars

\* a signed-in viewer lists a category and the listed product is not counted
C15_CategoryListNotCounted ==
    /\ last.op = "listProductsByCategory"
    /\ last.who = 1
    /\ last.items = <<1>>
    /\ products[1].views = 0

(***************************************************************************)
(* Aftermath: one order, placed by a customer or a guest, and everything   *)
(* that can happen around it before and after: the products it names are   *)
(* re-priced, withdrawn or deleted, the customer's profile is edited or    *)
(* the account deleted, the order is moved through statuses or cancelled.  *)
(***************************************************************************)
AftermathBodies ==
    [items : {<<[product |-> 1, quantity |-> 2, rentalDuration |-> 3],
                [product |-> 2, quantity |-> 1, rentalDuration |-> 3]>>},
     rentalStartDate : {DayLen}, rentalEndDate : {DayLen + 1}, needDate : {DayLen},
     fieldsValid : {TRUE}, shippingAddress : {"Home", "Office"}]

AftermathProductBodies ==
    [name : {RedDress}, categories : {<<>>}, price : {Units(70)}, isAvailable : {FALSE},
     has : {{"price"}, {"isAvailable"}}]

AftermathUserBodies ==
    [role : {"user"}, isActive : {TRUE}, address : {"Office"}, has : {{"address"}}]

AftermathStatusBodies ==
    [orderStatus : {"Shipped", "Delivered"}, paymentStatus : {"Paid"}, adminNotes : {""},
     has : {{}, {"paymentStatus"}}]

InitAftermath ==
    /\ users = InitUsers
    /\ categories = InitCategories
    /\ products = LifecycleCatalogue
    /\ orders = <<>>
    /\ last = InitLast
    /\ inflight = <<>>

AftermathCreateOrder ==
    /\ orders = <<>>
    /\ \E b \in AftermathBodies : CreateOrder(1, b, Now, 0)

AftermathCreateGuestOrder ==
    /\ orders = <<>>
    /\ \E b \in AftermathBodies : CreateGuestOrder(b, Now, 0)

AftermathUpdateProduct ==
    \E id \in DOMAIN LifecycleCatalogue, b \in AftermathProductBodies : UpdateProduct(3, id, b)

AftermathDeleteProduct == \E id \in DOMAIN LifecycleCatalogue : DeleteProduct(3, id)

AftermathUpdateUser == \E b \in AftermathUserBodies : UpdateUser(3, 1, b)

AftermathDeleteUser == DeleteUser(3, 1)

AftermathUpdateOrderStatus == \E b \in AftermathStatusBodies : UpdateOrderStatus(3, 1, b)

AftermathCancelOrder == \E u \in {1, 3} : CancelOrder(u, 1, "")

NextAftermath ==
    \/ AftermathCreateOrder
    \/ AftermathCreateGuestOrder
    \/ AftermathUpdateProduct
    \/ AftermathDeleteProduct
    \/ AftermathUpdateUser
    \/ AftermathDeleteUser
    \/ AftermathUpdateOrderStatus
    \/ AftermathCancelOrder

SpecAftermath == InitAftermath /\ [][NextAftermath]_vars

(***************************************************************************)
(* Properties of stored orders.                                            *)
(***************************************************************************)
\* what an order copies at checkout
Snapshot(order) ==
    [items |-> [i \in DOMAIN order.items |->
                  <<order.items[i].price, order.items[i].totalPrice>>],
     subtotal |-> order.subtotal, shippingCost |-> order.shippingCost, tax |-> order.tax,
     totalAmount |-> order.totalAmount, shippingAddress |-> order.shippingAddress]

\* C16: once an order is stored, its items' price and totalPrice, its subtotal,
\* shippingCost, tax, totalAmount and its shippingAddress are the same after
\* every later step: product re-pricing, withdrawal and deletion, edits and
\* deletion of the customer's account, status updates and cancellation.
C16_SnapshotKept ==
    [][\A o \in DOMAIN orders :
          o \in DOMAIN orders' /\ Snapshot(orders'[o]) = Snapshot(orders[o])]_vars

C16_Witness ==
    /\ last.op = "cancelOrder" /\ last.code = 200
    /\ orders[1].items[1].price = Units(40)
    /\ orders[1].totalAmount = 16200
    /\ orders[1].shippingAddress = "Home"
    /\ orders[1].user = 1
    /\ users[1].address = "Office"
    /\ products[1].exists /\ products[1].price = Units(70)
    /\ ~products[2].exists

\* C17: a stored order has isGuestOrder set exactly when its user reference is
\* null; the guest entry point stores null and the flag, the authenticated one
\* stores the requester and no flag, and no later step changes either field.
C17_GuestFlagIffNoUser ==
    /\ [](\A o \in DOMAIN orders : orders[o].isGuestOrder <=> orders[o].user = NoRef)
    /\ [][/\ \A o \in DOMAIN orders :
                /\ orders'[o].user = orders[o].user
                /\ orders'[o].isGuestOrder = orders[o].isGuestOrder
          /\ OrderCreated =>
                /\ last'.op = "createOrder"
                      => (orders'[Len(orders')].user = last'.who /\ last'.who # NoRef)
                /\ last'.op = "createGuestOrder" => orders'[Len(orders')].user = NoRef]_vars

C17_Witness ==
    /\ last.op = "updateOrderStatus" /\ last.code = 200
    /\ orders[1].isGuestOrder
    /\ orders[1].user = NoRef
    /\ orders[1].orderStatus = "Delivered"

(***************************************************************************)
(* Order routes: listing.                                                  *)
(***************************************************************************)
\* a slip in the filter: the requester's role is not looked at
MatchesOrderFilterForAnyone(doc, requester, status) ==
    status # "" => doc.orderStatus = status

\* filter.user = req.user.id unless admin; filter.orderStatus = status if given
MatchesOrderFilter(doc, requester, status) ==
    /\ users[requester].role # "admin" => doc.user = requester
    /\ status # "" => doc.orderStatus = status

\* Order.find(filter).sort({ createdAt: +-1 }): orders are numbered as created
RECURSIVE FindOrdersSorted(_, _, _, _)
FindOrdersSorted(requester, status, order, n) ==
    IF n = 0 THEN <<>>
    ELSE LET rest == FindOrdersSorted(requester, status, order, n - 1)
             hit == IF MatchesOrderFilter(orders[n], requester, status) THEN <<n>> ELSE <<>>
         IN  IF order = "desc" THEN hit \o rest ELSE rest \o hit

\* GET /api/orders
ListOrders(requester, status, order, page, limit) ==
    /\ UserExists(requester)
    /\ last' = Counted(ListResponse("listOrders", requester, status,
                                    SkipLimit(FindOrdersSorted(requester, status, order,
                                                               Len(orders)),
                                              page, limit),
                                    page, limit),
                       Len(FindOrdersSorted(requester, status, order, Len(orders))))
    /\ UNCHANGED <<users, categories, products, orders, inflight>>

(***************************************************************************)
(* Order desk: customers 1 and 2 and guests place orders, an admin ships   *)
(* some of them, and anyone signed in asks for the order list.             *)
(***************************************************************************)
MaxDesk == 2

DeskBodies ==
    [items : {<<[product |-> 1, quantity |-> 1, rentalDuration |-> 3]>>},
     rentalStartDate : {DayLen}, rentalEndDate : {DayLen + 1}, needDate : {DayLen},
     fieldsValid : {TRUE}, shippingAddress : {"Home"}]

DeskStatusBodies ==
    [orderStatus : {"Shipped"}, paymentStatus : {"Pending"}, adminNotes : {""}, has : {{}}]

DeskStatusFilters == {"", "Shipped"}

InitDesk ==
    /\ users = InitUsers
    /\ categories = InitCategories
    /\ products = LifecycleCatalogue
    /\ orders = <<>>
    /\ last = InitLast
    /\ inflight = <<>>

DeskCreateOrder ==
    /\ Len(orders) < MaxDesk
    /\ \E u \in UserIds \ AdminIds, b \in DeskBodies : CreateOrder(u, b, Now, Len(orders))

DeskCreateGuestOrder ==
    /\ Len(orders) < MaxDesk
    /\ \E b \in DeskBodies : CreateGuestOrder(b, Now, Len(orders))

DeskUpdateOrderStatus ==
    \E id \in 1 .. MaxDesk, b \in DeskStatusBodies : UpdateOrderStatus(3, id, b)

DeskListOrders ==
    \E u \in UserIds, status \in DeskStatusFilters, order \in {"asc", "desc"},
       page \in 1 .. 2, limit \in {1, MaxDesk} :
        ListOrders(u, status, order, page, limit)

NextDesk ==
    \/ DeskCreateOrder
    \/ DeskCreateGuestOrder
    \/ DeskUpdateOrderStatus
    \/ DeskListOrders

SpecDesk == InitDesk /\ [][NextDesk]_vars

\* the orders a requester may be shown under a status filter
Visible(requester, status) ==
    {o \in DOMAIN orders :
        /\ IsAdmin(requester) \/ orders[o].user = requester
        /\ status # "" => orders[o].orderStatus = status}

\* C18: the order list answered to a non-admin holds only orders whose user is
\* the requester, so no other customer's order and no guest order, under every
\* status filter, direction and page; an admin's list ranges over all orders;
\* each page holds its share of the visible orders without repetition.
C18_OwnOrdersOnly ==
    [][last'.op = "listOrders" =>
         /\ ~IsAdmin(last'.who) =>
               \A i \in DOMAIN last'.items :
                  /\ orders[last'.items[i]].user = last'.who
                  /\ ~orders[last'.items[i]].isGuestOrder
         /\ \A i \in DOMAIN last'.items : last'.items[i] \in Visible(last'.who, last'.target)
         /\ \A i, j \in DOMAIN last'.items : last'.items[i] = last'.items[j] => i = j
         /\ Len(last'.items) = PageSize(Cardinality(Visible(last'.who, last'.target)),
                                        last'.page, last'.limit)
         /\ (IsAdmin(last'.who) /\ last'.target = "" /\ last'.page = 1
               /\ last'.limit >= Len(orders))
               => {last'.items[i] : i \in DOMAIN last'.items} = DOMAIN orders]_vars

C18_Witness ==
    /\ last.op = "listOrders"
    /\ last.who = 1
    /\ last.target = ""
    /\ last.limit = MaxDesk
    /\ last.items = <<2>>
    /\ Len(orders) = 2
    /\ orders[1].user \in {2, NoRef}
    /\ orders[2].user = 1

(***************************************************************************)
(* Shelf: an admin creates and edits a product in a store with two         *)
(* categories and deletes categories.                                      *)
(***************************************************************************)
InitShelf ==
    /\ users = InitUsers
    /\ categories = TwoCategories
    /\ products = <<>>
    /\ orders = <<>>
    /\ last = InitLast
    /\ inflight = <<>>

ShelfCreateProduct ==
    /\ Len(products) < MaxCategorised
    /\ \E b \in ProductBodies : CreateProduct(3, b)

ShelfUpdateProduct ==
    \E id \in 1 .. MaxCategorised, b \in ProductUpdateBodies : UpdateProduct(3, id, b)

ShelfDeleteCategory == \E id \in DOMAIN TwoCategories : DeleteCategory(3, id)

NextShelf ==
    \/ ShelfCreateProduct
    \/ ShelfUpdateProduct
    \/ ShelfDeleteCategory

SpecShelf == InitShelf /\ [][NextShelf]_vars

\* C19: in every reachable state each stored product has at least one entry in
\* categories, and every entry of categories and its category refer to a
\* category that exists; no sequence of product creations, product updates and
\* category deletions breaks this.
C19_CategoriesExist ==
    \A p \in DOMAIN products :
        products[p].exists =>
            /\ Len(products[p].categories) > 0
            /\ \A i \in DOMAIN products[p].categories :
                  CategoryExists(products[p].categories[i])
            /\ CategoryExists(products[p].category)

\* a category is deleted while a product created under it is still stored
C19_ProductOutlivesCategory ==
    /\ last.op = "deleteCategory" /\ last.code = 200 /\ last.target = 1
    /\ ~CategoryExists(1)
    /\ Len(products) = 1
    /\ products[1].exists
    /\ products[1].categories = <<1>>
    /\ products[1].category = 1

(***************************************************************************)
(* Order routes: statistics.                                               *)
(***************************************************************************)
\* { $group: { _id: null, totalRevenue: { $sum: '$totalAmount' } } } over the
\* matched orders; no group, hence 0, when nothing matches
RECURSIVE SumTotalAmount(_)
SumTotalAmount(matched) ==
    IF matched = {} THEN 0
    ELSE LET o == CHOOSE x \in matched : TRUE
         IN  orders[o].totalAmount + SumTotalAmount(matched \ {o})

\* GET /api/orders/stats/summary; the revenue is aggregated over
\* { $match: { orderStatus: { $in: ['Delivered', 'Paid'] } } }
OrderStats(admin) ==
    /\ IsAdmin(admin)
    /\ last' = [totalOrders |-> Len(orders),
                completedOrders |->
                    Cardinality({o \in DOMAIN orders : orders[o].orderStatus = "Delivered"}),
                totalRevenue |->
                    SumTotalAmount({o \in DOMAIN orders :
                                       orders[o].orderStatus \in {"Delivered", "Paid"}})]
               @@ Response("orderStats", admin, NoRef, 200, "ok", NoRef)
    /\ UNCHANGED <<users, categories, products, orders, inflight>>

(***************************************************************************)
(* Ledger: guests place orders of two sizes, an admin moves them on and    *)
(* records payments, and asks for the statistics.                          *)
(***************************************************************************)
InitLedger ==
    /\ users = InitUsers
    /\ categories = InitCategories
    /\ products = LifecycleCatalogue
    /\ orders = <<>>
    /\ last = InitLast
    /\ inflight = <<>>

LedgerCreateGuestOrder ==
    /\ Len(orders) < MaxDesk
    /\ \E b \in LifecycleBodies : CreateGuestOrder(b, Now, Len(orders))

LedgerUpdateOrderStatus ==
    \E id \in 1 .. MaxDesk, b \in AftermathStatusBodies : UpdateOrderStatus(3, id, b)

LedgerOrderStats == OrderStats(3)

NextLedger ==
    \/ LedgerCreateGuestOrder
    \/ LedgerUpdateOrderStatus
    \/ LedgerOrderStats

SpecLedger == InitLedger /\ [][NextLedger]_vars

\* the orders the statistics are said to count
DeliveredOrPaid ==
    {o \in DOMAIN orders :
        orders[o].orderStatus = "Delivered" \/ orders[o].paymentStatus = "Paid"}

\* C20: the totalRevenue answered by the statistics endpoint is the sum of
\* totalAmount over exactly the orders whose orderStatus is Delivered or whose
\* paymentStatus is Paid; an order paid but not delivered is counted.
C20_RevenueOverDeliveredOrPaid ==
    [][last'.op = "orderStats" =>
          last'.totalRevenue = SumTotalAmount(DeliveredOrPaid)]_vars

\* a paid, shipped order is left out of the revenue
C20_PaidOrderNotCounted ==
    /\ last.op = "orderStats"
    /\ Len(orders) = 1
    /\ orders[1].paymentStatus = "Paid"
    /\ orders[1].orderStatus = "Shipped"
    /\ orders[1].totalAmount > 0
    /\ last.totalRevenue = 0

(***************************************************************************)
(* Numbering: guests place orders on two days with several random          *)
(* suffixes; an admin ships the orders and cancels them.                   *)
(***************************************************************************)
NumberingClocks == {Now, 3 * DayLen}

NumberingRandoms == {7, 999}

NumberingBodies ==
    [items : {<<[product |-> 1, quantity |-> 1, rentalDuration |-> 3]>>},
     rentalStartDate : {4 * DayLen}, rentalEndDate : {5 * DayLen}, needDate : {4 * DayLen},
     fieldsValid : {TRUE}, shippingAddress : {"Home"}]

NumberingCreateGuestOrder ==
    /\ Len(orders) < MaxDesk
    /\ \E b \in NumberingBodies, now \in NumberingClocks, random \in NumberingRandoms :
          CreateGuestOrder(b, now, random)

NumberingUpdateOrderStatus ==
    \E id \in 1 .. MaxDesk, b \in DeskStatusBodies : UpdateOrderStatus(3, id, b)

NumberingCancelOrder == \E id \in 1 .. MaxDesk : CancelOrder(3, id, "")

NextNumbering ==
    \/ NumberingCreateGuestOrder
    \/ NumberingUpdateOrderStatus
    \/ NumberingCancelOrder

SpecNumbering == InitDesk /\ [][NextNumbering]_vars

DigitValue(c) == CHOOSE i \in 0 .. 9 : DigitChars[i + 1] = c

TwoDigits(s, i) == 10 * DigitValue(s[i]) + DigitValue(s[i + 1])

\* ORD, then two digits each for year, month and day of the date, then three
\* digits for the suffix
WellFormedNumber(number, date, random) ==
    /\ Len(number) = 12
    /\ SubSeq(number, 1, 3) = <<"O", "R", "D">>
    /\ \A i \in 4 .. 12 : number[i] \in Range(DigitChars)
    /\ TwoDigits(number, 4) = date.year % 100
    /\ TwoDigits(number, 6) = date.month
    /\ TwoDigits(number, 8) = date.day
    /\ 100 * DigitValue(number[10]) + TwoDigits(number, 11) = random

\* C21: an order's orderNumber is assigned when the order is first stored, as
\* ORD followed by the two-digit year, month and day of that moment and three
\* digits, and no later save of the order (status update, cancel) changes it.
C21_OrderNumberAssignedOnce ==
    [][/\ \A o \in DOMAIN orders : orders'[o].orderNumber = orders[o].orderNumber
       /\ OrderCreated =>
             \E now \in NumberingClocks, random \in NumberingRandoms :
                 WellFormedNumber(orders'[Len(orders')].orderNumber,
                                  CalendarDate(now), random)]_vars

C21_Witness ==
    /\ last.op = "cancelOrder" /\ last.code = 200 /\ last.target = 1
    /\ Len(orders) = 2
    /\ orders[1].orderStatus = "Cancelled"
    /\ orders[1].orderNumber = <<"O", "R", "D", "2", "6", "1", "2", "3", "1", "0", "0", "7">>
    /\ orders[2].orderStatus = "Shipped"
    /\ orders[2].orderNumber = <<"O", "R", "D", "2", "7", "0", "1", "0", "2", "9", "9", "9">>

(***************************************************************************)
(* Category and user routes: listing.                                      *)
(***************************************************************************)
\* Category.find({ isActive: true }).sort({ createdAt: +-1 }): the request
\* names createdAt as its sort field; categories are numbered as created
RECURSIVE FindCategoriesSorted(_, _)
FindCategoriesSorted(order, n) ==
    IF n = 0 THEN <<>>
    ELSE LET rest == FindCategoriesSorted(order, n - 1)
             hit == IF categories[n].exists /\ categories[n].isActive THEN <<n>> ELSE <<>>
         IN  IF order = "desc" THEN hit \o rest ELSE rest \o hit

\* GET /api/categories
ListCategories(order, page, limit) ==
    /\ last' = Counted(ListResponse("listCategories", NoRef, NoRef,
                                    SkipLimit(FindCategoriesSorted(order, Len(categories)),
                                              page, limit),
                                    page, limit),
                       Len(FindCategoriesSorted(order, Len(categories))))
    /\ UNCHANGED <<users, categories, products, orders, inflight>>

\* User.find(filter).sort({ createdAt: +-1 }) with filter.role = role when the
\* query has one; accounts are numbered as created
RECURSIVE FindUsersSorted(_, _, _)
FindUsersSorted(role, order, n) ==
    IF n = 0 THEN <<>>
    ELSE LET rest == FindUsersSorted(role, order, n - 1)
             hit == IF users[n].exists /\ (role # "" => users[n].role = role)
                    THEN <<n>> ELSE <<>>
         IN  IF order = "desc" THEN hit \o rest ELSE rest \o hit

\* GET /api/users
ListUsers(admin, role, order, page, limit) ==
    /\ IsAdmin(admin)
    /\ last' = Counted(ListResponse("listUsers", admin, role,
                                    SkipLimit(FindUsersSorted(role, order, 3), page, limit),
                                    page, limit),
                       Len(FindUsersSorted(role, order, 3)))
    /\ UNCHANGED <<users, categories, products, orders, inflight>>

(***************************************************************************)
(* Paging: the four collections are listed page by page while guests       *)
(* place orders.                                                           *)
(***************************************************************************)
MaxLimit == 3

InitPaging ==
    /\ users = InitUsers
    /\ categories \in {InitCategories, TwoCategories}
    /\ products \in {SubSeq(LifecycleCatalogue, 1, n) : n \in 0 .. 2}
    /\ orders = <<>>
    /\ last = InitLast
    /\ inflight = <<>>

PagingCreateGuestOrder ==
    /\ Len(orders) < MaxDesk
    /\ Len(products) >= 1
    /\ \E b \in DeskBodies : CreateGuestOrder(b, Now, Len(orders))

PagingListCategories ==
    \E order \in {"asc", "desc"}, page \in 1 .. 2, limit \in 1 .. MaxLimit :
        ListCategories(order, page, limit)

PagingListProducts ==
    \E category \in {NoRef, 2}, page \in 1 .. 2, limit \in 1 .. MaxLimit :
        ListProducts(NoRef, category, "desc", page, limit)

PagingListProductsByCategory ==
    \E category \in {1, 2}, page \in 1 .. 2, limit \in 1 .. MaxLimit :
        ListProductsByCategory(NoRef, category, "desc", page, limit)

PagingListOrders ==
    \E u \in {1, 3}, status \in DeskStatusFilters, page \in 1 .. 2, limit \in 1 .. MaxLimit :
        ListOrders(u, status, "desc", page, limit)

PagingListUsers ==
    \E role \in {"", "user", "admin"}, page \in 1 .. 2, limit \in 1 .. MaxLimit :
        ListUsers(3, role, "desc", page, limit)

NextPaging ==
    \/ PagingCreateGuestOrder
    \/ PagingListCategories
    \/ PagingListProducts
    \/ PagingListProductsByCategory
    \/ PagingListOrders
    \/ PagingListUsers

SpecPaging == InitPaging /\ [][NextPaging]_vars

PagedOps ==
    {"listCategories", "listProducts", "listProductsByCategory", "listOrders", "listUsers"}

\* the number of documents the filter of the answered request matches
FilteredTotal(response) ==
    IF response.op = "listCategories"
    THEN Cardinality({c \in DOMAIN categories : categories[c].exists /\ categories[c].isActive})
    ELSE IF response.op = "listProducts" /\ response.target = NoRef
    THEN Cardinality({p \in DOMAIN products : products[p].exists /\ products[p].isAvailable})
    ELSE IF response.op \in {"listProducts", "listProductsByCategory"}
    THEN Cardinality(InCategory(response.target, products))
    ELSE IF response.op = "listOrders"
    THEN Cardinality(Visible(response.who, response.target))
    ELSE Cardinality({u \in UserIds :
                         users[u].exists
                            /\ (response.target # "" => users[u].role = response.target)})

\* k is the least number of pages of the given size that hold total documents
LeastPageCount(k, total, limit) ==
    /\ k * limit >= total
    /\ k = 0 \/ (k - 1) * limit < total

\* C22: every listing endpoint (categories, products, orders, users) reports
\* total as the number of documents its filter matches and totalPages as
\* ceil(total / limit) for every limit >= 1: 25 documents in pages of 10 are 3
\* pages, none are 0 pages, 20 in pages of 10 are 2 pages.
C22_TotalPagesIsCeiling ==
    [][last'.op \in PagedOps =>
          /\ last'.total = FilteredTotal(last')
          /\ LeastPageCount(last'.totalPages, last'.total, last'.limit)
          /\ TotalPages(25, 10) = 3
          /\ TotalPages(0, 10) = 0
          /\ TotalPages(20, 10) = 2]_vars

C22_Witness ==
    /\ last.op = "listUsers"
    /\ last.target = ""
    /\ last.limit = 2
    /\ last.total = 3
    /\ last.totalPages = 2
    /\ Len(orders) = 2

(***************************************************************************)
(* Product routes: a single read in two steps.  Between findById and       *)
(* save() the handler awaits, and other requests run.  An entry of         *)
(* inflight is kept after its save, marked done.                           *)
(***************************************************************************)
\* GET /api/products/:id by a signed-in viewer, up to the call of save():
\* findById, the 404 answers, product.views += 1 on the loaded document
BeginGetProduct(viewer, id) ==
    /\ UserExists(viewer)
    /\ IF ~ProductExists(id)
       THEN /\ inflight' = inflight
            /\ last' = Response("getProduct", viewer, id, 404, "Product not found", NoRef)
       ELSE IF ~products[id].isAvailable
       THEN /\ inflight' = inflight
            /\ last' = Response("getProduct", viewer, id, 404,
                                "Product is not available", NoRef)
       ELSE /\ inflight' = Append(inflight,
                                  [viewer |-> viewer, id |-> id, doc |-> products[id],
                                   phase |-> "loaded"])
            /\ last' = Response("beginGetProduct", viewer, id, 0, "", NoRef)
    /\ UNCHANGED <<users, categories, products, orders>>

\* product.save() of the loaded document and the response: views and category
\* are written as the loaded document has them
SaveViewStep(i) ==
    /\ i \in DOMAIN inflight
    /\ inflight[i].phase = "loaded"
    /\ IF ProductExists(inflight[i].id)
       THEN /\ products' =
                 [products EXCEPT
                    ![inflight[i].id].views =
                        ViewedProduct(inflight[i].doc, inflight[i].id).views,
                    ![inflight[i].id].category =
                        ViewedProduct(inflight[i].doc, inflight[i].id).category]
            /\ last' = Response("getProduct", inflight[i].viewer, inflight[i].id,
                                200, "ok", NoRef)
       ELSE /\ products' = products
            /\ last' = Response("getProduct", inflight[i].viewer, inflight[i].id,
                                500, "Server error while fetching product", NoRef)
    /\ inflight' = [inflight EXCEPT ![i].phase = "done"]
    /\ UNCHANGED <<users, categories, orders>>

(***************************************************************************)
(* Views: signed-in viewers read product 1 concurrently and list the       *)
(* catalogue.                                                              *)
(***************************************************************************)
ViewsBeginGetProduct ==
    /\ Len(inflight) < MaxInflight
    /\ \E viewer \in {1, 2} : BeginGetProduct(viewer, 1)

ViewsSaveViewStep == \E i \in 1 .. MaxInflight : SaveViewStep(i)

ViewsListProducts ==
    /\ products[1].views < MaxInflight
    /\ \E limit \in 1 .. 2 : ListProducts(1, NoRef, "asc", 1, limit)

NextViews ==
    \/ ViewsBeginGetProduct
    \/ ViewsSaveViewStep
    \/ ViewsListProducts

SpecViews == InitLifecycle /\ [][NextViews]_vars

\* C23: under every interleaving of signed-in single reads and list reads of a
\* product, its views counter never decreases and every completed view adds
\* exactly one to it, so that n completed views leave it n above where it was.
C23_ViewsAtomic ==
    [][/\ \A p \in DOMAIN products : products'[p].views >= products[p].views
       /\ (last'.op = "getProduct" /\ last'.code = 200)
             => products'[last'.target].views = products[last'.target].views + 1
       /\ last'.op = "listProducts"
             => \A i \in DOMAIN last'.items :
                   products'[last'.items[i]].views = products[last'.items[i]].views + 1]_vars

\* two single reads of product 1 have completed and its counter stands at one
C23_ViewLost ==
    /\ Len(inflight) = 2
    /\ \A i \in DOMAIN inflight : inflight[i].phase = "done" /\ inflight[i].id = 1
    /\ last.op = "getProduct" /\ last.code = 200
    /\ products[1].views = 1

(***************************************************************************)
(* Transitions: an order of a customer or a guest is moved by an admin     *)
(* from any status to any status, with and without a payment status or a   *)
(* note, and cancelled.                                                    *)
(***************************************************************************)
TransitionBodies ==
    [orderStatus : OrderStatuses, paymentStatus : {"Paid"}, adminNotes : {"Call"},
     has : {{}, {"paymentStatus"}, {"adminNotes"}}]

TransitionsCreateOrder ==
    /\ orders = <<>>
    /\ \E b \in DeskBodies : CreateOrder(1, b, Now, Len(orders))

TransitionsCreateGuestOrder ==
    /\ orders = <<>>
    /\ \E b \in DeskBodies : CreateGuestOrder(b, Now, Len(orders))

TransitionsUpdateOrderStatus ==
    \E b \in TransitionBodies : UpdateOrderStatus(3, 1, b)

TransitionsCancelOrder ==
    \E u \in {1, 3} : CancelOrder(u, 1, "")

NextTransitions ==
    \/ TransitionsCreateOrder
    \/ TransitionsCreateGuestOrder
    \/ TransitionsUpdateOrderStatus
    \/ TransitionsCancelOrder

SpecTransitions == InitDesk /\ [][NextTransitions]_vars

\* a status update that names only the order status
StatusOnly(t) == [orderStatus |-> t, paymentStatus |-> "Paid", adminNotes |-> "", has |-> {}]

\* C24: the admin status update accepts every enumerated orderStatus from
\* every current orderStatus: whatever status an order is in, one step moves
\* it to any of the seven (Cancelled and Delivered are not terminal), and the
\* step changes paymentStatus and adminNotes only when the body supplies them.
C24_AnyStatusFromAnyStatus ==
    /\ [](\A o \in DOMAIN orders, t \in OrderStatuses :
             ENABLED (/\ UpdateOrderStatus(3, o, StatusOnly(t))
                      /\ last'.code = 200
                      /\ orders'[o].orderStatus = t))
    /\ [][\A o \in DOMAIN orders, b \in TransitionBodies :
             UpdateOrderStatus(3, o, b) =>
                /\ last'.code = 200
                /\ orders'[o].orderStatus = b.orderStatus
                /\ "paymentStatus" \notin b.has
                      => orders'[o].paymentStatus = orders[o].paymentStatus
                /\ "adminNotes" \notin b.has
                      => orders'[o].adminNotes = orders[o].adminNotes
                /\ \A q \in DOMAIN orders : q # o => orders'[q] = orders[q]]_vars

\* an order cancelled by the admin is pending again
C24_Witness ==
    /\ last.op = "updateOrderStatus" /\ last.code = 200 /\ last.target = 1
    /\ Len(orders) = 1
    /\ orders[1].orderStatus = "Pending"
    /\ orders[1].adminNotes = "Order cancelled by admin"
    /\ orders[1].paymentStatus = "Pending"

(***************************************************************************)
(* Order routes: a creation in two steps.  The handler awaits between the  *)
(* item loop and order.save(), and other requests run in between.          *)
(***************************************************************************)
\* the answer of the creation handler before order.save() is called
PrecheckOrderError(body, now) ==
    IF ~ValidOrderBody(body)
    THEN [code |-> 400, msg |-> "Validation errors", ref |-> NoRef]
    ELSE IF OrderDateError(body, now) # "ok"
    THEN [code |-> 400, msg |-> OrderDateError(body, now), ref |-> NoRef]
    ELSE IF OrderItems(body.items, <<>>, 0).msg # "ok"
    THEN [code |-> 400, msg |-> OrderItems(body.items, <<>>, 0).msg,
          ref |-> OrderItems(body.items, <<>>, 0).ref]
    ELSE [code |-> 201, msg |-> "Order created successfully", ref |-> NoRef]

\* validation, date rules, the item loop and new Order({...}); now and random
\* are what the pre('save') hook will read
BeginPlaceOrder(op, who, user, isGuestOrder, body, now, random) ==
    /\ LET e == PrecheckOrderError(body, now)
       IN  IF e.code = 201
           THEN /\ inflight' =
                     Append(inflight,
                            [op |-> op, who |-> who, phase |-> "save",
                             doc |-> [shippingAddress |-> body.shippingAddress]
                                     @@ NewOrder(user, isGuestOrder,
                                                 OrderItems(body.items, <<>>, 0),
                                                 now, random)])
                /\ last' = Response("beginCreateOrder", who, NoRef, 0, "", NoRef)
           ELSE /\ inflight' = inflight
                /\ last' = Response(op, who, NoRef, e.code, e.msg, e.ref)
    /\ UNCHANGED <<users, categories, products, orders>>

\* a slip in the store: the orderNumber index is not unique
InsertOrderErrorWithoutIndex(number) ==
    [code |-> 201, msg |-> "Order created successfully", ref |-> NoRef]

\* the insert under the unique orderNumber index, and the handler's catch block
InsertOrderError(number) ==
    IF OrderNumberTaken(number)
    THEN [code |-> 500, msg |-> "Server error while creating order", ref |-> NoRef]
    ELSE [code |-> 201, msg |-> "Order created successfully", ref |-> NoRef]

\* order.save() and the response
InsertOrderStep(i) ==
    /\ i \in DOMAIN inflight
    /\ inflight[i].phase = "save"
    /\ LET e == InsertOrderError(inflight[i].doc.orderNumber)
       IN  /\ orders' = IF e.code = 201 THEN Append(orders, inflight[i].doc) ELSE orders
           /\ last' = Response(inflight[i].op, inflight[i].who,
                               IF e.code = 201 THEN Len(orders) + 1 ELSE NoRef,
                               e.code, e.msg, e.ref)
    /\ inflight' = RemoveAt(inflight, i)
    /\ UNCHANGED <<users, categories, products>>

(***************************************************************************)
(* Collision: guests place orders one after the other and a customer       *)
(* places orders concurrently, all on one day and with few random suffixes *)
(* to draw from.                                                           *)
(***************************************************************************)
CollisionCreateGuestOrder ==
    \E b \in DeskBodies, random \in 0 .. MaxRandom : CreateGuestOrder(b, Now, random)

CollisionBeginCreateOrder ==
    /\ Len(inflight) < MaxInflight
    /\ \E b \in DeskBodies, random \in 0 .. MaxRandom :
          BeginPlaceOrder("createOrder", 1, 1, FALSE, b, Now, random)

CollisionInsertOrderStep == \E i \in 1 .. MaxInflight : InsertOrderStep(i)

NextCollision ==
    \/ CollisionCreateGuestOrder
    \/ CollisionBeginCreateOrder
    \/ CollisionInsertOrderStep

SpecCollision == InitDesk /\ [][NextCollision]_vars

CreationOps == {"createOrder", "createGuestOrder"}

\* the step completes creation i, whose number a stored order already carries
NumberCollides(i) ==
    /\ i \in DOMAIN inflight
    /\ inflight[i].phase = "save"
    /\ \E o \in DOMAIN orders : orders[o].orderNumber = inflight[i].doc.orderNumber
    /\ inflight' = SubSeq(inflight, 1, i - 1) \o SubSeq(inflight, i + 1, Len(inflight))

\* C25: when two order creations draw the same order number, one after the
\* other or concurrently, only the first is stored: the second fails with the
\* generic creation error, stores nothing and is not tried again with another
\* number, so no two stored orders share an orderNumber.
C25_OrderNumbersUnique ==
    /\ [](\A o, q \in DOMAIN orders : o # q => orders[o].orderNumber # orders[q].orderNumber)
    /\ [][/\ \A i \in 1 .. MaxInflight :
                (NumberCollides(i) /\ last'.op \in CreationOps) =>
                    /\ last'.code = 500
                    /\ last'.msg = "Server error while creating order"
                    /\ orders' = orders
          /\ (last'.op \in CreationOps /\ last'.code = 500) =>
                /\ orders' = orders
                /\ last'.msg = "Server error while creating order"
                /\ Len(inflight') <= Len(inflight)
          /\ (last'.op \in CreationOps /\ last'.code = 201) =>
                /\ Len(orders') = Len(orders) + 1
                /\ \A o \in DOMAIN orders :
                      orders[o].orderNumber # orders'[Len(orders')].orderNumber]_vars

\* two concurrent creations drew the same number; the second to save failed
C25_Witness ==
    /\ last.op = "createOrder" /\ last.code = 500 /\ last.who = 1
    /\ Len(orders) = 1
    /\ orders[1].user = 1
    /\ orders[1].orderNumber = OrderNumber(Now, 0)
    /\ inflight = <<>>

(***************************************************************************)
(* The order of the checks of an order creation.                           *)
(***************************************************************************)
\* the first stage a request fails at, with the message that stage answers
FirstFailingStage(body, now, catalogue) ==
    IF ~ValidOrderBody(body) THEN "Validation errors"
    ELSE IF body.rentalStartDate < StartOfDay(now)
    THEN "Rental start date cannot be in the past"
    ELSE IF body.rentalEndDate <= body.rentalStartDate
    THEN "Rental end date must be after start date"
    ELSE IF body.needDate < StartOfDay(now) THEN "Need date cannot be in the past"
    ELSE IF HasBadItem(body, catalogue)
    THEN ItemErrorFor(FirstBadItem(body, catalogue), catalogue)
    ELSE "Order created successfully"

\* C26: an order creation checks the fields first, then the start date, the
\* end date and the need date, then the items in list order, and answers with
\* the first stage that fails: bad dates together with a missing or
\* unavailable product give the date error whatever the catalogue holds,
\* several bad items give the error of the first, and a rejected request
\* writes nothing.
C26_FirstFailingStage ==
    /\ [](last.op = "none" =>
            \A b \in OrderBodies :
                /\ CreateOrderError(b, Now, 0).msg = FirstFailingStage(b, Now, products)
                /\ (ValidOrderBody(b) /\ ~BadDates(b, Now) /\ HasBadItem(b, products))
                      => CreateOrderError(b, Now, 0).ref = FirstBadItem(b, products).product
                /\ FirstFailingStage(b, Now, products) # "Order created successfully"
                      => CreateOrderError(b, Now, 0).code = 400)
    /\ [][RejectedLeavesOrders]_vars

\* a request with a past start date for a product that is not in the catalogue
C26_Witness ==
    /\ last.op \in OrderCreationOps
    /\ last.code = 400
    /\ last.msg = "Rental start date cannot be in the past"
    /\ products = <<>>
    /\ orders = <<>>

(***************************************************************************)
(* Deletions with the image store.  A picture is hosted in the image store *)
(* or elsewhere; the removal of a hosted picture succeeds or throws.       *)
(***************************************************************************)
\* a slip in the handlers: the removal is not wrapped in try/catch
ImageRemovalUncaught(hosted, fails) ==
    IF ~hosted THEN "skipped" ELSE IF fails THEN "thrown" ELSE "removed"

\* if (image.includes('cloudinary')) { try { await deleteImage(publicId) }
\* catch (error) { console.error(...) } }
ImageRemoval(hosted, fails) ==
    IF ~hosted THEN "skipped" ELSE IF fails THEN "logged" ELSE "removed"

\* for (const image of product.images): images[i] tells whether picture i is
\* hosted, failing holds the pictures whose removal throws
RECURSIVE ImagesRemoval(_, _, _)
ImagesRemoval(images, failing, i) ==
    IF i > Len(images) THEN "removed"
    ELSE LET one == ImageRemoval(images[i], i \in failing)
             rest == ImagesRemoval(images, failing, i + 1)
         IN  IF one = "thrown" THEN "thrown"
             ELSE IF one = "logged" /\ rest # "thrown" THEN "logged"
             ELSE rest

\* the answer of a deletion and what it wrote to the error log
CleanupResponse(op, admin, id, code, msg, removal) ==
    [logged |-> removal = "logged"] @@ Response(op, admin, id, code, msg, NoRef)

\* DELETE /api/products/:id of a product with pictures
DeleteProductAndImages(admin, id, images, failing) ==
    /\ IsAdmin(admin)
    /\ IF ~ProductExists(id)
       THEN /\ products' = products
            /\ last' = CleanupResponse("deleteProduct", admin, id, 404,
                                       "Product not found", "skipped")
       ELSE IF ImagesRemoval(images, failing, 1) = "thrown"
       THEN /\ products' = products
            /\ last' = CleanupResponse("deleteProduct", admin, id, 500,
                                       "Server error while deleting product", "thrown")
       ELSE /\ products' = [products EXCEPT ![id] = ProductTombstone]
            /\ last' = CleanupResponse("deleteProduct", admin, id, 200,
                                       "Product deleted successfully",
                                       ImagesRemoval(images, failing, 1))
    /\ UNCHANGED <<users, categories, orders, inflight>>

\* DELETE /api/categories/:id of a category with a picture
DeleteCategoryAndImage(admin, id, hosted, fails) ==
    /\ IsAdmin(admin)
    /\ IF ~CategoryExists(id)
       THEN /\ categories' = categories
            /\ last' = CleanupResponse("deleteCategory", admin, id, 404,
                                       "Category not found", "skipped")
       ELSE IF ImageRemoval(hosted, fails) = "thrown"
       THEN /\ categories' = categories
            /\ last' = CleanupResponse("deleteCategory", admin, id, 500,
                                       "Server error while deleting category", "thrown")
       ELSE /\ categories' = [categories EXCEPT ![id] = CategoryTombstone]
            /\ last' = CleanupResponse("deleteCategory", admin, id, 200,
                                       "Category deleted successfully",
                                       ImageRemoval(hosted, fails))
    /\ UNCHANGED <<users, products, orders, inflight>>

(***************************************************************************)
(* Cleanup: an admin deletes products and categories whose pictures are    *)
(* hosted or not, while the image store answers or fails; id 3 names no    *)
(* product and no category.                                                *)
(***************************************************************************)
ImageLists == {<<>>, <<TRUE>>, <<FALSE, TRUE>>, <<TRUE, TRUE>>}

InitCleanup ==
    /\ users = InitUsers
    /\ categories = TwoCategories
    /\ products = LifecycleCatalogue
    /\ orders = <<>>
    /\ last = InitLast
    /\ inflight = <<>>

CleanupDeleteProduct ==
    \E id \in 1 .. 3, images \in ImageLists, failing \in SUBSET {1, 2} :
        DeleteProductAndImages(3, id, images, failing)

CleanupDeleteCategory ==
    \E id \in 1 .. 3, hosted \in BOOLEAN, fails \in BOOLEAN :
        DeleteCategoryAndImage(3, id, hosted, fails)

NextCleanup == CleanupDeleteProduct \/ CleanupDeleteCategory

SpecCleanup == InitCleanup /\ [][NextCleanup]_vars

\* C27: deleting a category or a product whose picture is hosted in the image
\* store removes the entity and answers success whether the removal from the
\* image store succeeds or fails; a failing removal is only logged.
C27_DeletionSurvivesCleanup ==
    [][/\ (last'.op = "deleteProduct" /\ ProductExists(last'.target)) =>
             /\ last'.code = 200
             /\ last'.msg = "Product deleted successfully"
             /\ ~products'[last'.target].exists
       /\ (last'.op = "deleteCategory" /\ CategoryExists(last'.target)) =>
             /\ last'.code = 200
             /\ last'.msg = "Category deleted successfully"
             /\ ~categories'[last'.target].exists]_vars

\* a category and then a product were deleted while the image store failed
C27_Witness ==
    /\ last.op = "deleteProduct" /\ last.code = 200 /\ last.target = 1
    /\ last.logged
    /\ ~ProductExists(1)
    /\ ~CategoryExists(2)

(***************************************************************************)
(* Naming: an admin creates, renames, hides and deletes categories whose   *)
(* names differ but give the same slug.                                    *)
(***************************************************************************)
CategoryUpdateBodies ==
    [name : SlugNames, isActive : {FALSE}, has : {{"name"}, {"isActive"}}]

NamingCreateCategory ==
    /\ Len(categories) < MaxSlugged
    /\ \E name \in SlugNames : CreateCategory(3, name)

NamingUpdateCategory ==
    \E id \in 1 .. MaxSlugged, b \in CategoryUpdateBodies : UpdateCategory(3, id, b)

NamingDeleteCategory == \E id \in 1 .. MaxSlugged : DeleteCategory(3, id)

NextNaming ==
    \/ NamingCreateCategory
    \/ NamingUpdateCategory
    \/ NamingDeleteCategory

SpecNaming == InitSlugs /\ [][NextNaming]_vars

NameStored(name) == \E c \in DOMAIN categories : categories[c].exists /\ categories[c].name = name

\* another stored category than self carries the slug the name should give
SlugStoredElsewhere(name, self) ==
    \E c \in DOMAIN categories :
        c # self /\ categories[c].exists /\ categories[c].slug = ExpectedBase(name)

\* C28: no two stored categories share a name or a slug; a creation or a
\* rename whose name no category has but whose slug another category has
\* ("Red Dress" beside "red-dress") is not stored: it fails with the generic
\* server error and the categories stay as they were; no other slug is tried.
C28_CategoryNamesAndSlugsUnique ==
    /\ [](\A c, d \in DOMAIN categories :
             (c # d /\ categories[c].exists /\ categories[d].exists) =>
                 /\ categories[c].name # categories[d].name
                 /\ categories[c].slug # categories[d].slug)
    /\ [][/\ \A name \in SlugNames :
                (CreateCategory(3, name) /\ ~NameStored(name)
                    /\ SlugStoredElsewhere(name, NoRef)) =>
                    /\ last'.code = 500
                    /\ last'.msg = "Server error while creating category"
                    /\ categories' = categories
          /\ \A id \in DOMAIN categories, b \in CategoryUpdateBodies :
                (UpdateCategory(3, id, b) /\ categories[id].exists /\ "name" \in b.has
                    /\ ~NameStored(b.name) /\ SlugStoredElsewhere(b.name, id)) =>
                    /\ last'.code = 500
                    /\ last'.msg = "Server error while updating category"
                    /\ categories' = categories
          /\ (last'.op \in {"createCategory", "updateCategory"} /\ last'.code # 200
                 /\ last'.code # 201) => categories' = categories]_vars

\* a rename to a new name whose slug another category has was refused
C28_Witness ==
    /\ last.op = "updateCategory" /\ last.code = 500 /\ last.target = 1
    /\ Len(categories) = 3
    /\ categories[1].name = Dresses
    /\ categories[2].name = RedDress
    /\ categories[2].slug = RedDressSlug
    /\ categories[3].name = RedDressOne


(***************************************************************************)
(* The migration script over product tables of every shape: products with *)
(* a category and no categories (of a category that exists, 1 or 2, or of *)
(* a deleted one, 3), products with neither, products created with one or *)
(* several categories, and products whose categories a PUT replaced        *)
(* without touching category.                                              *)
(***************************************************************************)
MigrationShapes ==
    [categories : {<<>>}, category : {NoRef, 1, 2, 3}]
    \cup {[categories |-> <<1>>, category |-> 1],
          [categories |-> <<2, 1>>, category |-> 2],
          [categories |-> <<2>>, category |-> 1]}

\* the i-th product of a table: same name, the slug the probe loop gave it
MigrationProduct(shape, i) ==
    [exists |-> TRUE, name |-> RedDress, categories |-> shape.categories,
     category |-> shape.category, price |-> Units(40), isAvailable |-> TRUE,
     slug |-> IF i = 1 THEN BaseSlug(RedDress)
              ELSE SlugCandidate(BaseSlug(RedDress), i - 1),
     views |-> 0]

InitMigration ==
    /\ users = InitUsers
    /\ categories = TwoCategories
    /\ \E shapes \in [1 .. MaxMigrated -> MigrationShapes] :
           products = [i \in 1 .. MaxMigrated |-> MigrationProduct(shapes[i], i)]
    /\ orders = <<>>
    /\ last = InitLast
    /\ inflight = <<>>

MigrationRun == MigrateToMultipleCategories

MigrationUpdateProduct ==
    \E id \in 1 .. MaxMigrated,
       b \in {u \in ProductUpdateBodies : u.categories \in {<<>>, <<2>>}} :
        UpdateProduct(3, id, b)

MigrationDeleteProduct ==
    \E id \in 1 .. MaxMigrated : DeleteProduct(3, id)

NextMigration ==
    \/ MigrationRun
    \/ MigrationUpdateProduct
    \/ MigrationDeleteProduct

SpecMigration == InitMigration /\ [][NextMigration]_vars

\* a product the script is about: it has a category and no categories
IsLegacy(doc) == doc.exists /\ doc.category # NoRef /\ Len(doc.categories) = 0

\* C29: a run of the migration script gives every product that had a
\* category and no categories the list [that category] and changes nothing
\* else of it, leaves every other product as it was, changes no product's
\* category, and a run that follows a run changes no product.
C29_MigrationFillsLegacyOnly ==
    [][MigrateToMultipleCategories =>
          /\ DOMAIN products' = DOMAIN products
          /\ \A p \in DOMAIN products :
                /\ products'[p].category = products[p].category
                /\ IsLegacy(products[p]) =>
                       products'[p] =
                           [products[p] EXCEPT !.categories = <<products[p].category>>]
                /\ ~IsLegacy(products[p]) => products'[p] = products[p]
          /\ last.op = "migrate" => products' = products]_vars

\* the script has run over a product of a deleted category beside a product
\* of two categories
C29_Witness ==
    /\ last.op = "migrate"
    /\ Len(products) = MaxMigrated
    /\ products[1].categories = <<3>>
    /\ products[1].category = 3
    /\ products[2].categories = <<2, 1>>


(***************************************************************************)
(* Window: a customer's order creations, split at the await between the    *)
(* item loop and order.save(), interleaved with an admin who withdraws,    *)
(* reprices and deletes the products.                                      *)
(***************************************************************************)
WindowBeginCreateOrder ==
    /\ Len(orders) + Len(inflight) < MaxInflight
    /\ \E b \in AftermathBodies :
          BeginPlaceOrder("createOrder", 1, 1, FALSE, b, Now, Len(orders) + Len(inflight))

WindowInsertOrderStep == \E i \in 1 .. MaxInflight : InsertOrderStep(i)

WindowUpdateProduct ==
    \E id \in DOMAIN LifecycleCatalogue, b \in AftermathProductBodies :
        UpdateProduct(3, id, b)

WindowDeleteProduct == \E id \in DOMAIN LifecycleCatalogue : DeleteProduct(3, id)

NextWindow ==
    \/ WindowBeginCreateOrder
    \/ WindowInsertOrderStep
    \/ WindowUpdateProduct
    \/ WindowDeleteProduct

SpecWindow == InitAftermath /\ [][NextWindow]_vars

\* C30: under every interleaving of order creations with an admin's product
\* updates and deletions, the step that writes an order writes only items
\* whose product exists and is available at that moment.
C30_OrderedProductsAvailable ==
    [][\A i \in 1 .. MaxInflight :
          (InsertOrderStep(i) /\ last'.code = 201) =>
              \A k \in DOMAIN orders'[Len(orders')].items :
                  /\ ProductExists(orders'[Len(orders')].items[k].product)
                  /\ products[orders'[Len(orders')].items[k].product].isAvailable]_vars

\* an order was just written whose first product is deleted and whose second
\* product is withdrawn
C30_OrderOfWithdrawnProducts ==
    /\ last.op = "createOrder" /\ last.code = 201
    /\ Len(orders) >= 1
    /\ last.target = Len(orders)
    /\ Len(orders[Len(orders)].items) = 2
    /\ orders[Len(orders)].items[1].product = 1
    /\ ~ProductExists(1)
    /\ orders[Len(orders)].items[2].product = 2
    /\ ProductExists(2) /\ ~products[2].isAvailable

====
